---- MODULE Spec2Model ----
(***************************************************************************)
(* Quantum Pay frontend: the API client (js/api-service.js), the           *)
(* authentication handler (js/auth-handler.js) and the transaction handler *)
(* (js/transaction-handler.js), modelled as state machines over the        *)
(* browser state they read and write: the API client's token, the two web  *)
(* storages, the page, the DOM pieces the handlers create (modals, the     *)
(* rendered list, notifications) and the requests in flight.               *)
(*                                                                         *)
(* Spec        : a dashboard page (TransactionHandler + AuthHandler).      *)
(* AuthSpec    : the sign-in and signup pages (AuthHandler).               *)
(* StatsSpec   : calculateTransactionStats on lists drawn from samples.    *)
(* FilterSpec  : filterTransactions on a loaded dashboard.                 *)
(* RequestSpec : one makeRequest call, its options and its response.       *)
(* UtilSpec    : one call of validatePassword, validateEmail, generateOTP. *)
(* RaceSpec    : a loaded dashboard with two handlers in flight.           *)
(* SessionSpec : api.login and api.signup called on a loaded page.         *)
(***************************************************************************)
EXTENDS Integers, Sequences, FiniteSets, TLC

(***************************************************************************)
(* Bounds of the model.                                                    *)
(***************************************************************************)
\* handlers suspended at an await (or a timer) at the same time
MaxTasks == 1
\* transactions sent by the current user that the remote service holds
MaxSent == 1
\* transactions in a list handed to calculateTransactionStats on its own
StatsLen == 2
\* the random source is sampled at k / RandDen, k in 0 .. RandDen - 1
RandDen == 2
\* decimal places kept by the fixed-point representation of JS numbers
FracDigits == 3

(***************************************************************************)
(* JavaScript values that reach the token code: undefined, null, strings   *)
(* and numbers.  A number carries its decimal text.                        *)
(***************************************************************************)
Undef == [k |-> "undefined", s |-> ""]
Null == [k |-> "null", s |-> ""]
Str(x) == [k |-> "string", s |-> x]
Num(x) == [k |-> "number", s |-> x]

\* !!v
Truthy(v) ==
    \/ v.k = "string" /\ v.s # ""
    \/ v.k = "number" /\ v.s # "0"

\* String(v), the conversion localStorage.setItem applies to its value
ToStr(v) ==
    CASE v.k = "undefined" -> "undefined"
      [] v.k = "null" -> "null"
      [] OTHER -> v.s

(***************************************************************************)
(* Character strings (sequences of one-character strings) for the text     *)
(* the code inspects: form fields, OTP codes, identifiers.                 *)
(***************************************************************************)
DigitChars == <<"0", "1", "2", "3", "4", "5", "6", "7", "8", "9">>

IsDigit(c) == \E d \in 1..10 : DigitChars[d] = c

DigitVal(c) == (CHOOSE d \in 1..10 : DigitChars[d] = c) - 1

RECURSIVE Pow10(_)
Pow10(n) == IF n = 0 THEN 1 ELSE 10 * Pow10(n - 1)

\* Number.prototype.toString of a non-negative integer
RECURSIVE NatToString(_)
NatToString(n) ==
    IF n < 10 THEN <<DigitChars[n + 1]>>
    ELSE Append(NatToString(n \div 10), DigitChars[(n % 10) + 1])

\* length of the run of digits of s that starts at position i
RECURSIVE DigitRun(_, _)
DigitRun(s, i) ==
    IF i > Len(s) \/ ~IsDigit(s[i]) THEN 0 ELSE 1 + DigitRun(s, i + 1)

\* the number written by the n digits of s that start at position i
RECURSIVE DigitsValue(_, _, _)
DigitsValue(s, i, n) ==
    IF n = 0 THEN 0
    ELSE 10 * DigitsValue(s, i, n - 1) + DigitVal(s[i + n - 1])

\* leading white space skipped by parseFloat
RECURSIVE SkipSpace(_, _)
SkipSpace(s, i) ==
    IF i <= Len(s) /\ s[i] = " " THEN SkipSpace(s, i + 1) ELSE i

(***************************************************************************)
(* JS numbers in fixed point: v counts units of 10^-FracDigits.            *)
(***************************************************************************)
Unit == Pow10(FracDigits)

NaN == [nan |-> TRUE, v |-> 0]
Number(v) == [nan |-> FALSE, v |-> v]

\* parseFloat(text): optional sign, digits, optional fraction; the longest
\* such prefix is read, NaN when it holds no digit.  FormData.get gives null
\* for a missing field, which parses as NaN like the empty string.
parseFloat(s) ==
    LET i0 == SkipSpace(s, 1)
        neg == i0 <= Len(s) /\ s[i0] = "-"
        i1 == IF i0 <= Len(s) /\ s[i0] \in {"-", "+"} THEN i0 + 1 ELSE i0
        ni == DigitRun(s, i1)
        dot == i1 + ni <= Len(s) /\ s[i1 + ni] = "."
        nf == IF dot THEN DigitRun(s, i1 + ni + 1) ELSE 0
        kept == IF nf < FracDigits THEN nf ELSE FracDigits
        frac == DigitsValue(s, i1 + ni + 1, kept) * Pow10(FracDigits - kept)
        mag == DigitsValue(s, i1, ni) * Unit + frac
    IN  IF ni + nf = 0 THEN NaN
        ELSE Number(IF neg THEN 0 - mag ELSE mag)

\* a * n for a JS number a and a literal n
Times(a, n) == IF a.nan THEN NaN ELSE Number(a.v * n)

(***************************************************************************)
(* Pages.  The handlers only test whether the path contains '/dashboard/'. *)
(***************************************************************************)
NoPage == ""
SignInPage == "/main/sign-in page.html"
Step1Page == "/main/create-account-step1.html"
Step2Page == "/main/create-account-step2.html"
Step3Page == "/main/create-account-step3.html"
DashMainPage == "/dashboard/dashboard-main.html"
GetStartedPage == "/dashboard/dashboard-getstarted.html"

\* window.location.pathname.includes('/dashboard/')
IsDashboard(p) == p \in {DashMainPage, GetStartedPage}

(***************************************************************************)
(* Records of the remote service.                                          *)
(***************************************************************************)
NoId == <<>>
NoUser == [id |-> "", name |-> "", email |-> ""]
Me == [id |-> "u1", name |-> "Ada Byron", email |-> "ada@x.io"]
Other == "u2"

\* tokens the auth service accepts; any other bearer is answered 401
ValidTokens == {"tokA", "tokB"}

Tx(id, amount, currency, sender, receiver, status, otp, verified) ==
    [id |-> id, amount |-> amount, currency |-> currency,
     sender_user_id |-> sender, receiver_user_id |-> receiver,
     status |-> status, otp_code |-> otp, otp_verified |-> verified]

NoTx == Tx(NoId, 0, "", "", "", "", <<>>, FALSE)

\* the body of a PATCH: has_otp tells whether otp_code and otp_verified are
\* in it
Patch(has_otp, otp, verified, status) ==
    [has_otp |-> has_otp, otp_code |-> otp, otp_verified |-> verified,
     status |-> status]

NoPatch == Patch(FALSE, <<>>, FALSE, "")

\* the credentials a sign-in or signup handler sends, and the other fields
\* of its form that it holds on to
Cred(name, email, password, remember, phone, marketing) ==
    [name |-> name, email |-> email, password |-> password,
     remember |-> remember, phone |-> phone, marketing |-> marketing]

NoCred == Cred("", <<>>, <<>>, FALSE, "", FALSE)

IdOf(n) == <<"t">> \o NatToString(n)

(***************************************************************************)
(* State.                                                                  *)
(***************************************************************************)
VARIABLES
    authToken,     \* QuantumPayAPI.authToken
    lsToken,       \* localStorage['quantum_auth_token'] as getItem returns it
    prefs,         \* localStorage: remember-me, phone, marketing opt-in
    draft,         \* sessionStorage['quantum_signup_data']
    location,      \* the page that is loaded
    navTo,         \* the page being navigated to, NoPage when none
    notice,        \* the notification the last handler put on screen
    tasks,         \* handlers suspended at an await, and their requests
    currentUser,   \* TransactionHandler.currentUser
    transactions,  \* TransactionHandler.transactions
    rendered,      \* the transaction list in the document
    stats,         \* the dashboard statistics in the document
    bound,         \* TransactionHandler.bindEvents has run
    searchTerm,    \* the text in #transaction-search
    statusFilter,  \* the option selected in #transaction-filter
    call,          \* the makeRequest call followed on its own (RequestSpec)
    probe,         \* the last call whose return value is followed
    modals,        \* the .modal-overlay elements, in document order
    form,          \* whether the fields of #send-money-form hold input
    formLoading,   \* its submit button is disabled
    loader,        \* #transaction-loader is shown
    db             \* the transactions held by the remote service

apiVars == <<authToken, lsToken>>
authVars == <<prefs, draft>>
pageVars == <<location, navTo>>
filterVars == <<searchTerm, statusFilter>>
dashVars == <<currentUser, transactions, rendered, stats, bound, searchTerm,
              statusFilter, modals, form, formLoading, loader>>
serverVars == <<db>>
vars == <<authToken, lsToken, prefs, draft, location, navTo, notice, tasks,
          currentUser, transactions, rendered, stats, bound, searchTerm,
          statusFilter, call, probe, modals, form, formLoading, loader,
          db>>

(***************************************************************************)
(* QuantumPayAPI: the token.                                               *)
(***************************************************************************)
\* constructor: this.authToken = localStorage.getItem('quantum_auth_token')
Constructor == authToken' = lsToken

setAuthToken(token) ==
    /\ authToken' = token
    /\ lsToken' = Str(ToStr(token))

\* a variant that leaves the token where it is
KeepAuthToken == UNCHANGED <<authToken, lsToken>>

clearAuthToken ==
    /\ authToken' = Null
    /\ lsToken' = Null

isAuthenticated(token) == Truthy(token)

\* the Authorization header makeRequest adds: the bearer, "" when none is added
AuthHeader(token) == IF Truthy(token) THEN ToStr(token) ELSE ""

(***************************************************************************)
(* QuantumPayAPI.makeRequest: what an HTTP answer becomes.                 *)
(***************************************************************************)
StatusText(status) ==
    CASE status = 401 -> "Unauthorized"
      [] status = 404 -> "Not Found"
      [] status = 500 -> "Internal Server Error"
      [] OTHER -> "OK"

\* response.ok
HttpOk(status) == status >= 200 /\ status <= 299

\* the message of the error makeRequest throws: the body's message field,
\* or 'HTTP <status>: <statusText>' when the body has none
ErrorMessage(status, bodyMessage) ==
    IF bodyMessage # "" THEN bodyMessage
    ELSE "HTTP " \o ToString(status) \o ": " \o StatusText(status)

(***************************************************************************)
(* QuantumPayAPI.makeRequest followed on its own: the options of the call, *)
(* the configuration handed to fetch, the response, and what the call      *)
(* returns or throws.  Headers are sets of <<name, value>> pairs.          *)
(***************************************************************************)
\* { ...a, ...b } on headers: all of b, and what b does not name of a
SpreadHeaders(a, b) == {h \in a : \A g \in b : g[1] # h[1]} \cup b

\* the options object: hasHeaders tells whether it has a headers property
Options(method, hasHeaders, headers) ==
    [method |-> method, hasHeaders |-> hasHeaders, headers |-> headers]

\* lines 15-22
defaultHeaders(token) ==
    {<<"Content-Type", "application/json">>} \cup
        (IF Truthy(token)
         THEN {<<"Authorization", "Bearer " \o ToStr(token)>>}
         ELSE {})

\* lines 24-27, { headers: { ...defaultHeaders, ...options.headers },
\* ...options }: the properties of options are spread after the headers
\* property and replace it when options has one of that name
RequestConfig(token, options) ==
    LET merged ==
            SpreadHeaders(defaultHeaders(token),
                          IF options.hasHeaders THEN options.headers ELSE {})
    IN  [method |-> options.method,
         headers |-> IF options.hasHeaders THEN options.headers ELSE merged]

\* response bodies: a JSON object and its message field (Undef when it has
\* none), the JSON text null, and a body response.json() cannot parse
JsonObject(message) == [json |-> "object", message |-> message]
JsonNull == [json |-> "null", message |-> Undef]
NotJson == [json |-> "none", message |-> Undef]

Response(status, body) == [status |-> status, body |-> body]
NoResponse == Response(0, NotJson)

\* what the call comes to: not settled yet, a value returned, an error thrown
Pending ==
    [kind |-> "pending", value |-> NotJson, error |-> "", message |-> ""]
Returned(value) ==
    [kind |-> "returned", value |-> value, error |-> "", message |-> ""]
Thrown(error, message) ==
    [kind |-> "thrown", value |-> NotJson, error |-> error,
     message |-> message]

\* lines 32-42: the outcome of the call for a response
ResponseOutcome(response) ==
    LET status == response.status
        body == response.body
        \* await response.json().catch(() => ({}))
        errorData == IF body.json = "none" THEN JsonObject(Undef) ELSE body
    IN  IF ~HttpOk(status)
        THEN IF errorData.json = "null"
             THEN \* errorData.message reads a property of null
                  Thrown("TypeError", "Cannot read properties of null")
             ELSE Thrown("Error",
                         ErrorMessage(status,
                                      IF Truthy(errorData.message)
                                      THEN ToStr(errorData.message)
                                      ELSE ""))
        ELSE IF status = 204 THEN Returned(JsonNull)
        ELSE IF body.json = "none"
             THEN Thrown("SyntaxError", "Unexpected end of JSON input")
             ELSE Returned(body)

\* the calls of response.json() on the way
ParsedTimes(response) ==
    IF HttpOk(response.status) /\ response.status = 204 THEN 0 ELSE 1

NoCall ==
    [pc |-> "idle", options |-> Options("", FALSE, {}), sent |-> <<>>,
     response |-> NoResponse, parsed |-> 0, outcome |-> Pending]

\* makeRequest up to its await fetch(url, config)
MakeRequest(options) ==
    /\ call.pc = "idle"
    /\ call' = [call EXCEPT !.pc = "fetch", !.options = options,
                    !.sent = Append(call.sent,
                                    RequestConfig(authToken, options))]
    /\ UNCHANGED <<probe, apiVars, authVars, pageVars, notice, tasks,
                   dashVars, serverVars>>

\* fetch resolves with a response and makeRequest runs to its end
FetchAnswer(response) ==
    /\ call.pc = "fetch"
    /\ call' = [call EXCEPT !.pc = "done", !.response = response,
                    !.parsed = ParsedTimes(response),
                    !.outcome = ResponseOutcome(response)]
    /\ UNCHANGED <<probe, apiVars, authVars, pageVars, notice, tasks,
                   dashVars, serverVars>>

\* fetch rejects (no network): the catch at line 43 throws the error again
FetchFails ==
    /\ call.pc = "fetch"
    /\ call' = [call EXCEPT !.pc = "done",
                    !.outcome = Thrown("TypeError", "Failed to fetch")]
    /\ UNCHANGED <<probe, apiVars, authVars, pageVars, notice, tasks,
                   dashVars, serverVars>>

(***************************************************************************)
(* Handlers suspended at an await.  One record per invocation: its kind,   *)
(* the await it is at (pc), its locals (tx, code, cred), and the request   *)
(* it waits for: the body sent (data, patch), the bearer sent (hdr), and,  *)
(* for a list request, the answer on its way back (st, msg, rlist).        *)
(***************************************************************************)
Task(kind, pc, tx, code, data, patch, cred, hdr) ==
    [kind |-> kind, pc |-> pc, tx |-> tx, code |-> code, data |-> data,
     patch |-> patch, cred |-> cred, hdr |-> hdr, st |-> "sent", msg |-> "",
     rlist |-> <<>>]

RemoveAt(s, i) == SubSeq(s, 1, i - 1) \o SubSeq(s, i + 1, Len(s))

NoNotice == [text |-> "", type |-> ""]
Notice(text, type) == [text |-> text, type |-> type]
\* showError / showSuccess
showError(text) == Notice(text, "error")
showSuccess(text) == Notice(text, "success")

(***************************************************************************)
(* QuantumPayAPI utilities used by the dashboard.                          *)
(***************************************************************************)
\* a generator without the offset
OtpNoOffset(k, den) ==
    NatToString(1000 * ((k * 1000) \div den)
                    + (1000 * ((k * 1000) % den)) \div den)

\* Math.floor(100000 + Math.random() * 900000).toString() for
\* Math.random() = k / den; the product k * 900000 is taken in two stages
\* (k * 900, then * 1000) to stay within the integers of the checker
OtpOf(k, den) ==
    NatToString(100000 + 1000 * ((k * 900) \div den)
                    + (1000 * ((k * 900) % den)) \div den)

\* generateOTP with the random source at k / RandDen
generateOTP(k) == OtpOf(k, RandDen)

\* a call whose result is followed: the function, its argument (text, or
\* the draw k of the random source), the requests it has issued, whether it
\* has returned, and what it returned
Probe(fn, text, k) ==
    [fn |-> fn, text |-> text, k |-> k, sent |-> 0, done |-> FALSE,
     bool |-> FALSE, strength |-> "", out |-> <<>>]

\* the call has returned the boolean b
ProbeReturns(p, b) == [p EXCEPT !.done = TRUE, !.bool = b]

NoProbe == Probe("", <<>>, 0)

(***************************************************************************)
(* TransactionHandler: pure parts.                                         *)
(***************************************************************************)
RECURSIVE SumAmounts(_)
\* reduce((sum, t) => sum + t.amount, 0)
SumAmounts(ts) ==
    IF ts = <<>> THEN 0 ELSE Head(ts).amount + SumAmounts(Tail(ts))

NoStats == [balance |-> 0, income |-> 0, expenses |-> 0, pendingCount |-> 0]

\* a variant that sums over every status
StatsOfAllStatuses(ts, user) ==
    LET pending == SelectSeq(ts, LAMBDA t : t.status = "pending")
        income == SumAmounts(SelectSeq(ts,
                      LAMBDA t : t.receiver_user_id = user.id))
        expenses == SumAmounts(SelectSeq(ts,
                      LAMBDA t : t.sender_user_id = user.id))
    IN  [balance |-> income - expenses, income |-> income,
         expenses |-> expenses, pendingCount |-> Len(pending)]

calculateTransactionStats(ts, user) ==
    LET completed == SelectSeq(ts, LAMBDA t : t.status = "completed")
        pending == SelectSeq(ts, LAMBDA t : t.status = "pending")
        income == SumAmounts(SelectSeq(completed,
                      LAMBDA t : t.receiver_user_id = user.id))
        expenses == SumAmounts(SelectSeq(completed,
                      LAMBDA t : t.sender_user_id = user.id))
    IN  [balance |-> income - expenses, income |-> income,
         expenses |-> expenses, pendingCount |-> Len(pending)]

\* renderTransactions: one item per transaction, with a Verify button when
\* it is pending and not verified
RenderItem(t) ==
    [id |-> t.id, verifyBtn |-> ~t.otp_verified /\ t.status = "pending"]

renderTransactions(ts) == [i \in 1..Len(ts) |-> RenderItem(ts[i])]

\* this.transactions.find(t => t.id === id): its index, 0 when none
FindTx(ts, id) ==
    IF \E i \in 1..Len(ts) : ts[i].id = id
    THEN CHOOSE i \in 1..Len(ts) :
            /\ ts[i].id = id
            /\ \A j \in 1..(i - 1) : ts[j].id # id
    ELSE 0

(***************************************************************************)
(* Modals.  closeModal removes the first .modal-overlay of the document;   *)
(* showOTPModal appends an overlay and binds its listener to the first     *)
(* #otp-form of the document.                                              *)
(***************************************************************************)
Modal(kind, tx, cancelBtn, verifyBtn) ==
    [kind |-> kind, tx |-> tx, cancelBtn |-> cancelBtn,
     verifyBtn |-> verifyBtn, handlers |-> <<>>]

\* document.querySelector('#otp-form'): the index of the first OTP modal
FirstOtpForm(ms) ==
    CHOOSE i \in 1..Len(ms) :
        /\ ms[i].kind = "otp"
        /\ \A j \in 1..(i - 1) : ms[j].kind # "otp"

showOTPModal(ms, tx) ==
    LET ms1 == Append(ms, Modal("otp", tx, FALSE, FALSE))
    IN  [ms1 EXCEPT ![FirstOtpForm(ms1)].handlers = Append(@, tx)]

closeModal(ms) == IF ms = <<>> THEN ms ELSE Tail(ms)

showTransactionDetails(ms, ts, id) ==
    LET i == FindTx(ts, id)
    IN  IF i = 0 THEN ms
        ELSE Append(ms, Modal("details", id, ts[i].status = "pending",
                              ts[i].status = "pending" /\ ~ts[i].otp_verified))

(***************************************************************************)
(* Inputs.                                                                 *)
(***************************************************************************)
Form(amount, currency, receiver_id, receiver_email) ==
    [amount |-> amount, currency |-> currency, receiver_id |-> receiver_id,
     receiver_email |-> receiver_email]

\* #send-money-form after form.reset(), and as the page delivers it: no
\* field holds input
EmptyForm == FALSE
\* #send-money-form once the user typed into it
FilledForm == TRUE

\* what the user submits in #send-money-form
FormSamples ==
    { Form(<<"2", ".", "5">>, "", Other, ""),
      Form(<<"7">>, "EUR", "", "bob@x.io"),
      Form(<<"0">>, "", Other, ""),
      Form(<<"-", "5">>, "", Other, ""),
      Form(<<>>, "", Other, ""),
      Form(<<"x", "1">>, "", Other, ""),
      Form(<<"0", ".", "0", "1">>, "", "", "") }

\* the values of Math.random() the dashboard is run with: k / RandDen
OtpDraws == {RandDen - 1}

\* what the user types in #otp-code; the input is marked required, so the
\* browser submits no empty code
Codes == {<<"1", "2", "3", "4", "5", "6">>}

\* the transactions the service holds when the page is first opened
Fixture ==
    << Tx(IdOf(1), 5000 * Unit, "USD", Other, "u1", "pending",
          generateOTP(0), FALSE) >>

(***************************************************************************)
(* Page load: the scripts run again.  api-service.js builds the client     *)
(* from storage, auth-handler.js runs AuthHandler.init, and on a dashboard *)
(* page transaction-handler.js runs TransactionHandler.init.               *)
(***************************************************************************)
\* redirectToDashboard: where the page navigates, if at all
redirectToDashboard(page) ==
    IF IsDashboard(page) THEN NoPage ELSE DashMainPage

\* a variant that does not look at the token
InitRedirectsWithoutToken(token, page) == redirectToDashboard(page)

\* AuthHandler.init: where the page navigates, if at all
AuthHandlerInit(token, page) ==
    IF isAuthenticated(token) THEN redirectToDashboard(page) ELSE NoPage

\* a variant without the session check
InitWithoutSessionCheck(token) ==
    [nav |-> NoPage,
     tasks |-> <<Task("init", "user", NoId, <<>>, NoTx, NoPatch, NoCred,
                      AuthHeader(token))>>]

\* a variant that asks for the list before it knows the user
InitListFirst(token) ==
    IF ~isAuthenticated(token)
    THEN [nav |-> SignInPage, tasks |-> <<>>]
    ELSE [nav |-> NoPage,
          tasks |-> <<Task("init", "list", NoId, <<>>, NoTx, NoPatch, NoCred,
                           AuthHeader(token))>>]

\* TransactionHandler.init up to its first await: where it navigates, and the
\* handlers it leaves suspended
TransactionHandlerInit(token) ==
    IF ~isAuthenticated(token)
    THEN [nav |-> SignInPage, tasks |-> <<>>]
    ELSE [nav |-> NoPage,
          tasks |-> <<Task("init", "user", NoId, <<>>, NoTx, NoPatch, NoCred,
                           AuthHeader(token))>>]

PageLoad ==
    /\ navTo # NoPage
    /\ location' = navTo
    /\ Constructor
    /\ notice' = NoNotice
    /\ currentUser' = NoUser
    /\ transactions' = <<>>
    /\ rendered' = <<>>
    /\ stats' = NoStats
    /\ bound' = FALSE
    /\ searchTerm' = <<>>
    /\ statusFilter' = "all"
    /\ modals' = <<>>
    /\ form' = EmptyForm
    /\ formLoading' = FALSE
    /\ loader' = FALSE
    /\ IF IsDashboard(navTo)
       THEN LET r == TransactionHandlerInit(authToken')
            IN  /\ navTo' = IF AuthHandlerInit(authToken', navTo) # NoPage
                            THEN AuthHandlerInit(authToken', navTo)
                            ELSE r.nav
                /\ tasks' = r.tasks
       ELSE /\ navTo' = AuthHandlerInit(authToken', navTo)
            /\ tasks' = <<>>
    /\ UNCHANGED <<call, probe, lsToken, authVars, serverVars>>

\* the user opens a page of the site, or reloads the one shown
UserNavigate(p) ==
    /\ navTo = NoPage
    /\ navTo' = p
    /\ notice' = NoNotice
    /\ UNCHANGED <<call, probe, apiVars, authVars, location, tasks, dashVars,
                   serverVars>>

(***************************************************************************)
(* AuthHandler.handleLogout and QuantumPayAPI.logout.                      *)
(***************************************************************************)
\* a variant that forgets the stored copy
LogoutMemoryOnly ==
    /\ authToken' = Null
    /\ UNCHANGED lsToken
    /\ navTo' = SignInPage

logout ==
    /\ clearAuthToken
    /\ navTo' = SignInPage

handleLogout(confirmed) ==
    IF confirmed THEN logout
    ELSE UNCHANGED <<call, probe, apiVars, navTo>>

\* the logout button of the page
Logout(confirmed) ==
    /\ navTo = NoPage
    /\ location # NoPage
    /\ modals = <<>>
    /\ handleLogout(confirmed)
    /\ notice' = NoNotice
    /\ UNCHANGED <<call, probe, authVars, location, tasks, dashVars,
                   serverVars>>

(***************************************************************************)
(* TransactionHandler on a dashboard page.  An overlay covers the page:    *)
(* while one is open the user reaches only the topmost overlay (the last   *)
(* in the document), and the page under it once no overlay is left.        *)
(***************************************************************************)
OnDashboard == navTo = NoPage /\ IsDashboard(location)
PageFree == OnDashboard /\ modals = <<>>
Top == modals[Len(modals)]
TopIs(kind) == OnDashboard /\ modals # <<>> /\ Top.kind = kind

\* a variant in which only init loads the list
ListRequestSkipped(t, token) ==
    IF t.kind = "init"
    THEN [t EXCEPT !.pc = "list", !.hdr = AuthHeader(token), !.st = "sent",
                   !.msg = "", !.rlist = <<>>]
    ELSE [t EXCEPT !.pc = "done"]

\* loadTransactions up to its await: the handler now waits for the list
ListRequest(t, token) ==
    [t EXCEPT !.pc = "list", !.hdr = AuthHeader(token), !.st = "sent",
              !.msg = "", !.rlist = <<>>]

\* the refresh button, with at most limit handlers suspended afterwards
RefreshClickWithin(limit) ==
    /\ PageFree /\ bound
    /\ Len(tasks) < limit
    /\ loader' = TRUE
    /\ tasks' = Append(tasks,
           Task("load", "list", NoId, <<>>, NoTx, NoPatch, NoCred,
                AuthHeader(authToken)))
    /\ notice' = NoNotice
    /\ UNCHANGED <<call, probe, apiVars, authVars, pageVars, currentUser,
                   transactions, rendered, stats, bound, filterVars, modals,
                   form, formLoading, serverVars>>

RefreshClick == RefreshClickWithin(MaxTasks)

\* handleSendMoney, lines 107-116: the record built from the form
TransactionData(f, user, k) ==
    [amount |-> Times(parseFloat(f.amount), 100),
     currency |-> IF f.currency # "" THEN f.currency ELSE "USD",
     receiver_user_id |->
         IF f.receiver_id # "" THEN f.receiver_id ELSE f.receiver_email,
     sender_user_id |-> user.id,
     status |-> "pending",
     otp_code |-> generateOTP(k),
     otp_verified |-> FALSE]

\* a variant whose amount check is !amount alone
SendMoneyErrorNoSign(d) ==
    IF d.amount.nan \/ d.amount.v = 0
    THEN "Please enter a valid amount"
    ELSE IF d.receiver_user_id = ""
    THEN "Please enter recipient information"
    ELSE ""

\* handleSendMoney, lines 119-127: the message of the validation that fails,
\* "" when the record passes
SendMoneyError(d) ==
    IF d.amount.nan \/ d.amount.v = 0 \/ d.amount.v <= 0
    THEN "Please enter a valid amount"
    ELSE IF d.receiver_user_id = ""
    THEN "Please enter recipient information"
    ELSE ""

\* a variant that sends the record as verified
CreateBodyVerified(d) ==
    Tx(NoId, d.amount.v, d.currency, d.sender_user_id, d.receiver_user_id,
       d.status, d.otp_code, TRUE)

\* the body of the create request: the record as JSON.stringify writes it
CreateBody(d) ==
    Tx(NoId, d.amount.v, d.currency, d.sender_user_id, d.receiver_user_id,
       d.status, d.otp_code, d.otp_verified)

CreatesInFlight ==
    Cardinality({i \in 1..Len(tasks) :
                    tasks[i].kind = "send" /\ tasks[i].pc = "create"})

\* the records of the service that the user sent
SentBy(user) ==
    Cardinality({n \in 1..Len(db) : db[n].sender_user_id = user.id})

\* handleSendMoney up to its await; a disabled submit button submits nothing
HandleSendMoney(f, k) ==
    /\ PageFree /\ bound /\ ~formLoading
    /\ LET d == TransactionData(f, currentUser, k)
           err == SendMoneyError(d)
       IN  /\ form' = FilledForm
           /\ IF err # ""
              THEN /\ notice' = showError(err)
                   /\ UNCHANGED <<tasks, formLoading>>
              ELSE /\ Len(tasks) < MaxTasks
                   /\ SentBy(currentUser) + CreatesInFlight < MaxSent
                   /\ formLoading' = TRUE
                   /\ tasks' = Append(tasks,
                          Task("send", "create", NoId, <<>>, CreateBody(d),
                               NoPatch, NoCred, AuthHeader(authToken)))
                   /\ notice' = NoNotice
    /\ UNCHANGED <<call, probe, apiVars, authVars, pageVars, currentUser,
                   transactions, rendered, stats, bound, filterVars, modals,
                   loader, serverVars>>

\* a variant that completes the transaction only when the code is the one
\* generated at creation
VerifyOTPCompared(tx, code, token) ==
    LET n == FindTx(transactions, tx)
        same == n # 0 /\ transactions[n].otp_code = code
    IN  Task("verify", "update", tx, code, NoTx,
             Patch(TRUE, code, same, IF same THEN "completed" ELSE "pending"),
             NoCred, AuthHeader(token))

\* verifyOTP up to its await: the update it sends
verifyOTP(tx, code, token) ==
    Task("verify", "update", tx, code, NoTx,
         Patch(TRUE, code, TRUE, "completed"), NoCred, AuthHeader(token))

\* the submit listeners of an OTP form, each run up to its await
OtpListeners(m, code, token) ==
    [h \in 1..Len(m.handlers) |-> verifyOTP(m.handlers[h], code, token)]

\* the user submits the form of the topmost overlay, an OTP modal; a form
\* with no listener is submitted by the browser, which loads the page again
OtpSubmit(code) ==
    /\ TopIs("otp")
    /\ IF Top.handlers = <<>>
       THEN /\ navTo' = location
            /\ UNCHANGED tasks
       ELSE /\ Len(tasks) + Len(Top.handlers) <= MaxTasks
            /\ tasks' = tasks \o OtpListeners(Top, code, authToken)
            /\ UNCHANGED navTo
    /\ notice' = NoNotice
    /\ UNCHANGED <<call, probe, apiVars, authVars, location, dashVars,
                   serverVars>>

\* a variant that does not ask
CancelUnconfirmed(tx, confirmed, token) ==
    <<Task("cancel", "update", tx, <<>>, NoTx,
           Patch(FALSE, <<>>, FALSE, "cancelled"), NoCred,
           AuthHeader(token))>>

\* cancelTransaction up to its await
cancelTransaction(tx, confirmed, token) ==
    IF confirmed
    THEN <<Task("cancel", "update", tx, <<>>, NoTx,
                Patch(FALSE, <<>>, FALSE, "cancelled"), NoCred,
                AuthHeader(token))>>
    ELSE <<>>

\* the Cancel Transaction button of the topmost overlay, a details modal,
\* with at most limit handlers suspended afterwards
DetailsCancelClickWithin(confirmed, limit) ==
    /\ TopIs("details") /\ Top.cancelBtn
    /\ confirmed => Len(tasks) < limit
    /\ tasks' = tasks \o cancelTransaction(Top.tx, confirmed, authToken)
    /\ notice' = NoNotice
    /\ UNCHANGED <<call, probe, apiVars, authVars, pageVars, dashVars,
                   serverVars>>

DetailsCancelClick(confirmed) == DetailsCancelClickWithin(confirmed, MaxTasks)

\* the Verify OTP button of the topmost overlay, a details modal
DetailsVerifyClick ==
    /\ TopIs("details") /\ Top.verifyBtn
    /\ modals' = showOTPModal(modals, Top.tx)
    /\ notice' = NoNotice
    /\ UNCHANGED <<call, probe, apiVars, authVars, pageVars, tasks,
                   currentUser, transactions, rendered, stats, bound,
                   filterVars, form, formLoading, loader, serverVars>>

\* a click on the j-th rendered transaction
ItemClick(j) ==
    /\ PageFree /\ bound
    /\ j \in 1..Len(rendered)
    /\ modals' = showTransactionDetails(modals, transactions, rendered[j].id)
    /\ notice' = NoNotice
    /\ UNCHANGED <<call, probe, apiVars, authVars, pageVars, tasks,
                   currentUser, transactions, rendered, stats, bound,
                   filterVars, form, formLoading, loader, serverVars>>

\* a click on the Verify button of the j-th rendered transaction
VerifyBtnClick(j) ==
    /\ PageFree /\ bound
    /\ j \in 1..Len(rendered) /\ rendered[j].verifyBtn
    /\ modals' = showOTPModal(modals, rendered[j].id)
    /\ notice' = NoNotice
    /\ UNCHANGED <<call, probe, apiVars, authVars, pageVars, tasks,
                   currentUser, transactions, rendered, stats, bound,
                   filterVars, form, formLoading, loader, serverVars>>

\* the close button, the Cancel button or the backdrop of the topmost overlay
ModalCloseClick ==
    /\ OnDashboard
    /\ modals # <<>>
    /\ modals' = closeModal(modals)
    /\ notice' = NoNotice
    /\ UNCHANGED <<call, probe, apiVars, authVars, pageVars, tasks,
                   currentUser, transactions, rendered, stats, bound,
                   filterVars, form, formLoading, loader, serverVars>>

(***************************************************************************)
(* The remote service.  It checks the bearer, and nothing else: a PATCH is *)
(* applied to whatever the record holds.  The answer to a list request     *)
(* travels back while the page goes on (ListAnswer, then LoadDone); the    *)
(* answer to any other request carries nothing the page reads but success, *)
(* the error message and the new identifier, so the service's work and the *)
(* handler's resumption are one step.                                      *)
(***************************************************************************)
ApplyPatch(t, p) ==
    IF p.has_otp
    THEN [t EXCEPT !.status = p.status, !.otp_code = p.otp_code,
                   !.otp_verified = p.otp_verified]
    ELSE [t EXCEPT !.status = p.status]

\* the status of the answer to the request of handler t: served, or refused
\* for its bearer, for a record that does not exist, or for an outage
HttpStatus(t, served) ==
    IF t.hdr \notin ValidTokens THEN 401
    ELSE IF t.pc = "update" /\ FindTx(db, t.tx) = 0 THEN 404
    ELSE IF served THEN 200
    ELSE 500

\* the error makeRequest throws for that answer
RequestError(t, served) ==
    LET status == HttpStatus(t, served)
    IN  ErrorMessage(status, IF status = 500 THEN "" ELSE StatusText(status))

Suspended(i, kinds, pc) ==
    /\ navTo = NoPage
    /\ i \in 1..Len(tasks)
    /\ tasks[i].kind \in kinds /\ tasks[i].pc = pc

\* the service answers the list request of the i-th suspended handler
ListAnswer(i, served) ==
    /\ Suspended(i, {"init", "load", "send", "verify", "cancel"}, "list")
    /\ tasks[i].st = "sent"
    /\ tasks' = [tasks EXCEPT ![i] =
           IF HttpOk(HttpStatus(tasks[i], served))
           THEN [tasks[i] EXCEPT !.st = "ok", !.rlist = db]
           ELSE [tasks[i] EXCEPT !.st = "err",
                                 !.msg = RequestError(tasks[i], served)]]
    /\ notice' = NoNotice
    /\ UNCHANGED <<call, probe, apiVars, authVars, pageVars, dashVars,
                   serverVars>>

(***************************************************************************)
(* A suspended handler resumes with the answer to its request.             *)
(***************************************************************************)
\* init, lines 21-37, resumed after getCurrentUser
InitUserDone(i, served) ==
    /\ Suspended(i, {"init"}, "user")
    /\ IF HttpOk(HttpStatus(tasks[i], served))
       THEN /\ currentUser' = Me
            /\ loader' = TRUE
            /\ tasks' = [tasks EXCEPT ![i] = ListRequest(@, authToken)]
            /\ notice' = NoNotice
       ELSE /\ notice' = showError("Failed to load transaction data")
            /\ tasks' = RemoveAt(tasks, i)
            /\ UNCHANGED <<currentUser, loader>>
    /\ UNCHANGED <<call, probe, apiVars, authVars, pageVars, transactions,
                   rendered, stats, bound, filterVars, modals, form,
                   formLoading, serverVars>>

\* the notification left when a handler resumes after loadTransactions
LoadNotice(t) ==
    IF t.kind = "send"
    THEN showSuccess("Transaction initiated! Please verify with OTP.")
    ELSE IF t.st = "ok" THEN NoNotice
    ELSE showError("Failed to load transactions")

\* a variant that empties the list when the request failed
LoadDoneClearsOnFailure(i) ==
    /\ Suspended(i, {"init", "load", "send", "verify", "cancel"}, "list")
    /\ tasks[i].st # "sent"
    /\ LET t == tasks[i]
       IN  /\ IF t.st = "ok"
              THEN /\ transactions' = t.rlist
                   /\ rendered' = renderTransactions(t.rlist)
                   /\ stats' = calculateTransactionStats(t.rlist, currentUser)
              ELSE /\ transactions' = <<>>
                   /\ rendered' = renderTransactions(<<>>)
                   /\ stats' = calculateTransactionStats(<<>>, currentUser)
           /\ loader' = FALSE
           /\ notice' = LoadNotice(t)
           /\ bound' = (bound \/ t.kind = "init")
           /\ form' = IF t.kind = "send" THEN EmptyForm ELSE form
           /\ formLoading' = (formLoading /\ t.kind # "send")
           /\ modals' = IF t.kind = "verify" THEN closeModal(modals) ELSE modals
           /\ tasks' = RemoveAt(tasks, i)
    /\ UNCHANGED <<call, probe, apiVars, authVars, pageVars, currentUser,
                   filterVars, serverVars>>

\* loadTransactions, lines 90-98, resumed after getAllTransactions, and then
\* the rest of the handler that awaited it
LoadDone(i) ==
    /\ Suspended(i, {"init", "load", "send", "verify", "cancel"}, "list")
    /\ tasks[i].st # "sent"
    /\ LET t == tasks[i]
       IN  /\ IF t.st = "ok"
              THEN /\ transactions' = t.rlist
                   /\ rendered' = renderTransactions(t.rlist)
                   /\ stats' = calculateTransactionStats(t.rlist, currentUser)
              ELSE UNCHANGED <<transactions, rendered, stats>>
           /\ loader' = FALSE
           /\ notice' = LoadNotice(t)
           /\ bound' = (bound \/ t.kind = "init")
           /\ form' = IF t.kind = "send" THEN EmptyForm ELSE form
           /\ formLoading' = (formLoading /\ t.kind # "send")
           /\ modals' = IF t.kind = "verify" THEN closeModal(modals) ELSE modals
           /\ tasks' = RemoveAt(tasks, i)
    /\ UNCHANGED <<call, probe, apiVars, authVars, pageVars, currentUser,
                   filterVars, serverVars>>

\* a variant that leaves the submit button disabled when the create fails
SendCreateDoneKeepsLoading(i, served) ==
    /\ Suspended(i, {"send"}, "create")
    /\ LET t == tasks[i]
           made == [t.data EXCEPT !.id = IdOf(Len(db) + 1)]
       IN  IF HttpOk(HttpStatus(t, served))
           THEN /\ db' = Append(db, made)
                /\ modals' = showOTPModal(modals, made.id)
                /\ loader' = TRUE
                /\ tasks' = [tasks EXCEPT ![i] =
                       [ListRequest(@, authToken) EXCEPT !.tx = made.id]]
                /\ notice' = NoNotice
                /\ UNCHANGED formLoading
           ELSE /\ notice' = showError(
                      IF RequestError(t, served) # ""
                      THEN RequestError(t, served) ELSE "Transaction failed")
                /\ formLoading' = formLoading
                /\ tasks' = RemoveAt(tasks, i)
                /\ UNCHANGED <<modals, loader, serverVars>>
    /\ UNCHANGED <<call, probe, apiVars, authVars, pageVars, currentUser,
                   transactions, rendered, stats, bound, filterVars, form>>

\* handleSendMoney, lines 133-151, resumed after createTransaction
SendCreateDone(i, served) ==
    /\ Suspended(i, {"send"}, "create")
    /\ LET t == tasks[i]
           made == [t.data EXCEPT !.id = IdOf(Len(db) + 1)]
       IN  IF HttpOk(HttpStatus(t, served))
           THEN /\ db' = Append(db, made)
                /\ modals' = showOTPModal(modals, made.id)
                /\ loader' = TRUE
                /\ tasks' = [tasks EXCEPT ![i] =
                       [ListRequest(@, authToken) EXCEPT !.tx = made.id]]
                /\ notice' = NoNotice
                /\ UNCHANGED formLoading
           ELSE /\ notice' = showError(
                      IF RequestError(t, served) # ""
                      THEN RequestError(t, served) ELSE "Transaction failed")
                /\ formLoading' = FALSE
                /\ tasks' = RemoveAt(tasks, i)
                /\ UNCHANGED <<modals, loader, serverVars>>
    /\ UNCHANGED <<call, probe, apiVars, authVars, pageVars, currentUser,
                   transactions, rendered, stats, bound, filterVars, form>>

\* a variant that sends the update again when it failed
UpdateDoneRetries(i, served) ==
    /\ Suspended(i, {"verify", "cancel"}, "update")
    /\ LET t == tasks[i]
           n == FindTx(db, t.tx)
       IN  IF HttpOk(HttpStatus(t, served))
           THEN /\ db' = [db EXCEPT ![n] = ApplyPatch(@, t.patch)]
                /\ notice' = showSuccess(
                      IF t.kind = "verify"
                      THEN "Transaction completed successfully!"
                      ELSE "Transaction cancelled successfully")
                /\ loader' = TRUE
                /\ tasks' = [tasks EXCEPT ![i] = ListRequest(@, authToken)]
           ELSE /\ notice' = showError(
                      IF t.kind = "verify"
                      THEN "Invalid OTP code. Please try again."
                      ELSE "Failed to cancel transaction")
                /\ tasks' = tasks
                /\ UNCHANGED <<loader, serverVars>>
    /\ UNCHANGED <<call, probe, apiVars, authVars, pageVars, currentUser,
                   transactions, rendered, stats, bound, filterVars, modals,
                   form, formLoading>>

\* verifyOTP, lines 163-177, and cancelTransaction, lines 190-196, resumed
\* after updateTransaction
UpdateDone(i, served) ==
    /\ Suspended(i, {"verify", "cancel"}, "update")
    /\ LET t == tasks[i]
           n == FindTx(db, t.tx)
       IN  IF HttpOk(HttpStatus(t, served))
           THEN /\ db' = [db EXCEPT ![n] = ApplyPatch(@, t.patch)]
                /\ notice' = showSuccess(
                      IF t.kind = "verify"
                      THEN "Transaction completed successfully!"
                      ELSE "Transaction cancelled successfully")
                /\ loader' = TRUE
                /\ tasks' = [tasks EXCEPT ![i] = ListRequest(@, authToken)]
           ELSE /\ notice' = showError(
                      IF t.kind = "verify"
                      THEN "Invalid OTP code. Please try again."
                      ELSE "Failed to cancel transaction")
                /\ tasks' = RemoveAt(tasks, i)
                /\ UNCHANGED <<loader, serverVars>>
    /\ UNCHANGED <<call, probe, apiVars, authVars, pageVars, currentUser,
                   transactions, rendered, stats, bound, filterVars, modals,
                   form, formLoading>>

(***************************************************************************)
(* The dashboard.                                                          *)
(***************************************************************************)
NoDraft == [has |-> FALSE, name |-> "", email |-> <<>>, password |-> <<>>]
NoPrefs == [remember |-> FALSE, phone |-> "", marketing |-> FALSE]

Init ==
    /\ authToken = Null
    /\ lsToken \in {Null, Str("tokA"), Str("tokX")}
    /\ prefs = NoPrefs
    /\ draft = NoDraft
    /\ location = NoPage
    /\ navTo = DashMainPage
    /\ notice = NoNotice
    /\ tasks = <<>>
    /\ currentUser = NoUser
    /\ transactions = <<>>
    /\ rendered = <<>>
    /\ stats = NoStats
    /\ bound = FALSE
    /\ searchTerm = <<>>
    /\ statusFilter = "all"
    /\ call = NoCall
    /\ probe = NoProbe
    /\ modals = <<>>
    /\ form = EmptyForm
    /\ formLoading = FALSE
    /\ loader = FALSE
    /\ db \in {<<>>, Fixture}

Next ==
    \/ PageLoad
    \/ \E c \in BOOLEAN : Logout(c)
    \/ RefreshClick
    \/ \E f \in FormSamples, k \in OtpDraws : HandleSendMoney(f, k)
    \/ \E code \in Codes : OtpSubmit(code)
    \/ \E c \in BOOLEAN : DetailsCancelClick(c)
    \/ DetailsVerifyClick
    \/ \E j \in 1..Len(rendered) : ItemClick(j)
    \/ \E j \in 1..Len(rendered) : VerifyBtnClick(j)
    \/ ModalCloseClick
    \/ \E i \in 1..Len(tasks), served \in BOOLEAN : ListAnswer(i, served)
    \/ \E i \in 1..Len(tasks), served \in BOOLEAN : InitUserDone(i, served)
    \/ \E i \in 1..Len(tasks) : LoadDone(i)
    \/ \E i \in 1..Len(tasks), served \in BOOLEAN : SendCreateDone(i, served)
    \/ \E i \in 1..Len(tasks), served \in BOOLEAN : UpdateDone(i, served)

Spec == Init /\ [][Next]_vars

(***************************************************************************)
(* QuantumPayAPI: the validators the sign-in and signup forms use.         *)
(***************************************************************************)
\* /^[^\s@]+@[^\s@]+\.[^\s@]+$/.test(email): an '@' at i and a '.' at j, one
\* character or more before, between and after them, none of them white
\* space or '@'
validateEmailNoDot(email) ==
    \E i \in 1..Len(email) :
        /\ 1 < i /\ i < Len(email)
        /\ email[i] = "@"
        /\ \A n \in 1..Len(email) : n # i => email[n] \notin {" ", "@"}

validateEmail(email) ==
    \E i \in 1..Len(email), j \in 1..Len(email) :
        /\ 1 < i /\ i + 1 < j /\ j < Len(email)
        /\ email[i] = "@" /\ email[j] = "."
        /\ \A n \in 1..Len(email) : n # i => email[n] \notin {" ", "@"}

UpperChars ==
    {"A", "B", "C", "D", "E", "F", "G", "H", "I", "J", "K", "L", "M",
     "N", "O", "P", "Q", "R", "S", "T", "U", "V", "W", "X", "Y", "Z"}
LowerChars ==
    {"a", "b", "c", "d", "e", "f", "g", "h", "i", "j", "k", "l", "m",
     "n", "o", "p", "q", "r", "s", "t", "u", "v", "w", "x", "y", "z"}
\* the class [!@#$%^&*(),.?":{}|<>]
SpecialChars ==
    {"!", "@", "#", "$", "%", "^", "&", "*", "(", ")", ",", ".", "?", "\"",
     ":", "{", "}", "|", "<", ">"}

HasChar(password, class) == \E i \in 1..Len(password) : password[i] \in class

validatePasswordLenient(password) ==
    LET passedCount ==
            Cardinality({r \in 1..5 :
                \/ r = 1 /\ Len(password) >= 8
                \/ r = 2 /\ HasChar(password, UpperChars)
                \/ r = 3 /\ HasChar(password, LowerChars)
                \/ r = 4 /\ \E i \in 1..Len(password) : IsDigit(password[i])
                \/ r = 5 /\ HasChar(password, SpecialChars)})
    IN  [strength |-> IF passedCount >= 3 THEN "strong"
                      ELSE IF passedCount >= 2 THEN "medium"
                      ELSE "weak",
         requirements |-> <<>>,
         isValid |-> passedCount >= 3]

validatePassword(password) ==
    LET requirements ==
            [minLength |-> Len(password) >= 8,
             hasUppercase |-> HasChar(password, UpperChars),
             hasLowercase |-> HasChar(password, LowerChars),
             hasNumbers |-> \E i \in 1..Len(password) : IsDigit(password[i]),
             hasSpecialChars |-> HasChar(password, SpecialChars)]
        passedCount ==
            Cardinality({r \in DOMAIN requirements : requirements[r]})
    IN  [strength |-> IF passedCount >= 4 THEN "strong"
                      ELSE IF passedCount >= 3 THEN "medium"
                      ELSE "weak",
         requirements |-> requirements,
         isValid |-> passedCount >= 4]

(***************************************************************************)
(* QuantumPayAPI.login and signup, resumed with the answer of the auth     *)
(* service: the token of the response is kept when it is truthy.           *)
(***************************************************************************)
\* a variant that stores whatever the response holds
LoginUnguarded(response) == setAuthToken(response.authToken)

login(response) ==
    IF Truthy(response.authToken) THEN setAuthToken(response.authToken)
    ELSE UNCHANGED apiVars

signup(response) ==
    IF Truthy(response.authToken) THEN setAuthToken(response.authToken)
    ELSE UNCHANGED apiVars

\* an answer of the auth service: its status, the authToken field of its
\* body and the message field of its body
Answer(status, token, message) ==
    [status |-> status, authToken |-> token, message |-> message]

\* the answers the auth service gives to a login or a signup request
AuthAnswers ==
    { Answer(200, Str("tokA"), ""),
      Answer(200, Num("7"), ""),
      Answer(200, Str(""), ""),
      Answer(200, Undef, ""),
      Answer(401, Undef, "Invalid Credentials."),
      Answer(500, Undef, "") }

(***************************************************************************)
(* AuthHandler: the sign-in form.                                          *)
(***************************************************************************)
\* a variant that takes an empty password
SignInErrorEmailOnly(email, password) ==
    IF ~validateEmail(email) THEN "Please enter a valid email address"
    ELSE ""

\* handleSignIn, lines 78-84: the message of the check that throws, "" when
\* none does
SignInError(email, password) ==
    IF ~validateEmail(email) THEN "Please enter a valid email address"
    ELSE IF password = <<>> THEN "Password is required"
    ELSE ""

\* handleSignIn up to its await
HandleSignIn(email, password, rememberMe) ==
    /\ navTo = NoPage /\ location = SignInPage /\ ~formLoading
    /\ IF SignInError(email, password) # ""
       THEN /\ notice' = Notice(SignInError(email, password), "error")
            /\ UNCHANGED <<tasks, formLoading>>
       ELSE /\ formLoading' = TRUE
            /\ tasks' = Append(tasks,
                   Task("signin", "login", NoId, <<>>, NoTx, NoPatch,
                        Cred("", email, password, rememberMe, "", FALSE),
                        AuthHeader(authToken)))
            /\ notice' = NoNotice
    /\ UNCHANGED <<call, probe, apiVars, authVars, pageVars, currentUser,
                   transactions, rendered, stats, bound, filterVars, modals,
                   form, loader, serverVars>>

\* handleSignIn, lines 87-105, resumed after api.login
LoginDone(i, response) ==
    /\ Suspended(i, {"signin"}, "login")
    /\ IF HttpOk(response.status)
       THEN /\ login(response)
            /\ prefs' = IF tasks[i].cred.remember
                        THEN [prefs EXCEPT !.remember = TRUE] ELSE prefs
            /\ notice' = Notice("Login successful! Redirecting...", "success")
            /\ tasks' = [tasks EXCEPT ![i].pc = "timer"]
            /\ UNCHANGED formLoading
       ELSE /\ notice' = Notice(ErrorMessage(response.status,
                                             response.message), "error")
            /\ formLoading' = FALSE
            /\ tasks' = RemoveAt(tasks, i)
            /\ UNCHANGED <<apiVars, prefs>>
    /\ UNCHANGED <<call, probe, draft, pageVars, currentUser, transactions,
                   rendered, stats, bound, filterVars, modals, form, loader,
                   serverVars>>

(***************************************************************************)
(* AuthHandler: the three signup forms.  The draft is the object kept in   *)
(* sessionStorage; a field it lacks reads as empty.                        *)
(***************************************************************************)
\* a variant that takes any email
Step1ErrorNamesOnly(firstName, lastName, email) ==
    IF firstName = "" \/ lastName = ""
    THEN "Please enter your first and last name"
    ELSE ""

\* handleStep1, lines 118-126
Step1Error(firstName, lastName, email) ==
    IF firstName = "" \/ lastName = ""
    THEN "Please enter your first and last name"
    ELSE IF ~validateEmail(email) THEN "Please enter a valid email address"
    ELSE ""

\* a variant that keeps the password the draft holds
HandleStep1KeepsPassword(firstName, lastName, email) ==
    /\ navTo = NoPage /\ location = Step1Page
    /\ IF Step1Error(firstName, lastName, email) # ""
       THEN /\ notice' = Notice(Step1Error(firstName, lastName, email),
                                "error")
            /\ UNCHANGED <<draft, navTo>>
       ELSE /\ draft' = [has |-> TRUE,
                         name |-> firstName \o " " \o lastName,
                         email |-> email, password |-> draft.password]
            /\ navTo' = Step2Page
            /\ notice' = NoNotice
    /\ UNCHANGED <<call, probe, apiVars, prefs, location, tasks, dashVars,
                   serverVars>>

HandleStep1(firstName, lastName, email) ==
    /\ navTo = NoPage /\ location = Step1Page
    /\ IF Step1Error(firstName, lastName, email) # ""
       THEN /\ notice' = Notice(Step1Error(firstName, lastName, email),
                                "error")
            /\ UNCHANGED <<draft, navTo>>
       ELSE /\ draft' = [has |-> TRUE,
                         name |-> firstName \o " " \o lastName,
                         email |-> email, password |-> <<>>]
            /\ navTo' = Step2Page
            /\ notice' = NoNotice
    /\ UNCHANGED <<call, probe, apiVars, prefs, location, tasks, dashVars,
                   serverVars>>

\* a variant that does not compare the confirmation
Step2ErrorNoConfirm(password, confirmPassword) ==
    IF ~validatePassword(password).isValid
    THEN "Password does not meet security requirements"
    ELSE ""

\* handleStep2, lines 147-156
Step2Error(password, confirmPassword) ==
    IF ~validatePassword(password).isValid
    THEN "Password does not meet security requirements"
    ELSE IF password # confirmPassword THEN "Passwords do not match"
    ELSE ""

HandleStep2(password, confirmPassword) ==
    /\ navTo = NoPage /\ location = Step2Page
    /\ IF Step2Error(password, confirmPassword) # ""
       THEN /\ notice' = Notice(Step2Error(password, confirmPassword),
                                "error")
            /\ UNCHANGED <<draft, navTo>>
       ELSE /\ draft' = [draft EXCEPT !.has = TRUE, !.password = password]
            /\ navTo' = Step3Page
            /\ notice' = NoNotice
    /\ UNCHANGED <<call, probe, apiVars, prefs, location, tasks, dashVars,
                   serverVars>>

\* a variant that forgets the password
DraftWithoutName(d) == d.name = "" \/ d.email = <<>>

\* handleStep3, line 189: !signupData.name || !signupData.email ||
\* !signupData.password
DraftIncomplete(d) == d.name = "" \/ d.email = <<>> \/ d.password = <<>>

\* a variant that does not look at the terms checkbox
HandleStep3TermsIgnored(phoneNumber, termsAccepted, marketingOptIn) ==
    /\ navTo = NoPage /\ location = Step3Page /\ ~formLoading
    /\ IF DraftIncomplete(draft)
       THEN /\ notice' = Notice(
                   "Registration data is incomplete. Please start over.",
                   "error")
            /\ formLoading' = FALSE
            /\ UNCHANGED tasks
       ELSE /\ formLoading' = TRUE
            /\ tasks' = Append(tasks,
                   Task("signup", "signup", NoId, <<>>, NoTx, NoPatch,
                        Cred(draft.name, draft.email, draft.password, FALSE,
                             phoneNumber, marketingOptIn),
                        AuthHeader(authToken)))
            /\ notice' = NoNotice
    /\ UNCHANGED <<call, probe, apiVars, authVars, pageVars, currentUser,
                   transactions, rendered, stats, bound, filterVars, modals,
                   form, loader, serverVars>>

\* handleStep3 up to its await
HandleStep3(phoneNumber, termsAccepted, marketingOptIn) ==
    /\ navTo = NoPage /\ location = Step3Page /\ ~formLoading
    /\ IF ~termsAccepted
       THEN /\ notice' = Notice(
                   "You must accept the Terms of Service to continue",
                   "error")
            /\ UNCHANGED <<tasks, formLoading>>
       ELSE IF DraftIncomplete(draft)
       THEN /\ notice' = Notice(
                   "Registration data is incomplete. Please start over.",
                   "error")
            /\ formLoading' = FALSE
            /\ UNCHANGED tasks
       ELSE /\ formLoading' = TRUE
            /\ tasks' = Append(tasks,
                   Task("signup", "signup", NoId, <<>>, NoTx, NoPatch,
                        Cred(draft.name, draft.email, draft.password, FALSE,
                             phoneNumber, marketingOptIn),
                        AuthHeader(authToken)))
            /\ notice' = NoNotice
    /\ UNCHANGED <<call, probe, apiVars, authVars, pageVars, currentUser,
                   transactions, rendered, stats, bound, filterVars, modals,
                   form, loader, serverVars>>

\* handleStep3, lines 194-222, resumed after api.signup
SignupDone(i, response) ==
    /\ Suspended(i, {"signup"}, "signup")
    /\ IF HttpOk(response.status)
       THEN /\ signup(response)
            /\ draft' = NoDraft
            /\ prefs' = [prefs EXCEPT
                   !.phone = IF tasks[i].cred.phone # ""
                             THEN tasks[i].cred.phone ELSE @,
                   !.marketing = @ \/ tasks[i].cred.marketing]
            /\ notice' = Notice(
                   "Account created successfully! Redirecting to dashboard...",
                   "success")
            /\ tasks' = [tasks EXCEPT ![i].pc = "timer"]
            /\ UNCHANGED formLoading
       ELSE /\ notice' = Notice(ErrorMessage(response.status,
                                             response.message), "error")
            /\ formLoading' = FALSE
            /\ tasks' = RemoveAt(tasks, i)
            /\ UNCHANGED <<apiVars, authVars>>
    /\ UNCHANGED <<call, probe, pageVars, currentUser, transactions, rendered,
                   stats, bound, filterVars, modals, form, loader,
                   serverVars>>

\* the timer set after a successful sign-in (line 98) or signup (line 215)
\* fires
RedirectTimer(i) ==
    /\ Suspended(i, {"signin", "signup"}, "timer")
    /\ navTo' = IF tasks[i].kind = "signin" THEN redirectToDashboard(location)
                ELSE GetStartedPage
    /\ tasks' = RemoveAt(tasks, i)
    /\ notice' = NoNotice
    /\ UNCHANGED <<call, probe, apiVars, authVars, location, dashVars,
                   serverVars>>

(***************************************************************************)
(* AuthHandler.checkAuthStatus, for a caller that runs it.                 *)
(***************************************************************************)
\* checkAuthStatus up to its await; with no token it returns false at once
CheckAuthStatus ==
    /\ navTo = NoPage /\ location # NoPage
    /\ IF ~isAuthenticated(authToken)
       THEN /\ probe' = ProbeReturns(Probe("checkAuthStatus", <<>>, 0), FALSE)
            /\ UNCHANGED tasks
       ELSE /\ Len(tasks) < MaxTasks
            /\ tasks' = Append(tasks,
                   Task("probe", "user", NoId, <<>>, NoTx, NoPatch, NoCred,
                        AuthHeader(authToken)))
            /\ probe' = [Probe("checkAuthStatus", <<>>, 0) EXCEPT !.sent = 1]
    /\ notice' = NoNotice
    /\ UNCHANGED <<call, apiVars, authVars, pageVars, dashVars, serverVars>>

\* checkAuthStatus, lines 364-368, resumed after getCurrentUser
CheckAuthDone(i, served) ==
    /\ Suspended(i, {"probe"}, "user")
    /\ IF HttpOk(HttpStatus(tasks[i], served)) THEN UNCHANGED apiVars
       ELSE clearAuthToken
    /\ probe' = ProbeReturns(probe, HttpOk(HttpStatus(tasks[i], served)))
    /\ tasks' = RemoveAt(tasks, i)
    /\ notice' = NoNotice
    /\ UNCHANGED <<call, authVars, pageVars, dashVars, serverVars>>

(***************************************************************************)
(* The sign-in and signup pages.  A dashboard page that is reached loads   *)
(* (InitUserDone, ListAnswer, LoadDone) and offers its logout button.      *)
(***************************************************************************)
Pages ==
    {SignInPage, Step1Page, Step2Page, Step3Page, DashMainPage,
     GetStartedPage}

\* what the user types in the sign-in and signup forms
EmailSamples == { <<"a", "@", "b", ".", "c">>, <<"a", "@", "b">>, <<>> }
SignInPasswords == { <<"p", "w">>, <<>> }
FirstNames == {"Ada", ""}
LastNames == {"Byron", ""}
PasswordSamples ==
    { <<"A", "a", "1", "!">>,
      <<"A", "a", "1">>,
      <<"a", "b", "c", "d", "e", "f", "g", "h">>,
      <<>> }
PhoneSamples == {"", "555"}

AuthInit ==
    /\ authToken = Null
    /\ lsToken \in {Null, Str("tokA")}
    /\ prefs = NoPrefs
    /\ draft = NoDraft
    /\ location = NoPage
    /\ navTo = SignInPage
    /\ notice = NoNotice
    /\ tasks = <<>>
    /\ currentUser = NoUser
    /\ transactions = <<>>
    /\ rendered = <<>>
    /\ stats = NoStats
    /\ bound = FALSE
    /\ searchTerm = <<>>
    /\ statusFilter = "all"
    /\ call = NoCall
    /\ probe = NoProbe
    /\ modals = <<>>
    /\ form = EmptyForm
    /\ formLoading = FALSE
    /\ loader = FALSE
    /\ db = Fixture

AuthNext ==
    \/ PageLoad
    \/ \E p \in Pages : UserNavigate(p)
    \/ \E c \in BOOLEAN : Logout(c)
    \/ \E e \in EmailSamples, pw \in SignInPasswords, r \in BOOLEAN :
           HandleSignIn(e, pw, r)
    \/ \E i \in 1..Len(tasks), a \in AuthAnswers : LoginDone(i, a)
    \/ \E f \in FirstNames, l \in LastNames, e \in EmailSamples :
           HandleStep1(f, l, e)
    \/ \E pw \in PasswordSamples, cf \in PasswordSamples : HandleStep2(pw, cf)
    \/ \E ph \in PhoneSamples, t \in BOOLEAN, m \in BOOLEAN :
           HandleStep3(ph, t, m)
    \/ \E i \in 1..Len(tasks), a \in AuthAnswers : SignupDone(i, a)
    \/ \E i \in 1..Len(tasks) : RedirectTimer(i)
    \/ CheckAuthStatus
    \/ \E i \in 1..Len(tasks), served \in BOOLEAN : CheckAuthDone(i, served)
    \/ \E i \in 1..Len(tasks), served \in BOOLEAN : InitUserDone(i, served)
    \/ \E i \in 1..Len(tasks), served \in BOOLEAN : ListAnswer(i, served)
    \/ \E i \in 1..Len(tasks) : LoadDone(i)

AuthSpec == AuthInit /\ [][AuthNext]_vars

(***************************************************************************)
(* calculateTransactionStats on its own: a loaded list and a current user  *)
(* are drawn, and updateDashboardStats puts the statistics on the page.    *)
(***************************************************************************)
\* the transactions a loaded list is drawn from
StatsSamples ==
    { Tx(<<"t">>, a * Unit, "USD", p[1], p[2], st, <<>>, st = "completed") :
        a \in {3, 40},
        p \in {<<"u1", "u2">>, <<"u2", "u1">>, <<"u1", "u1">>,
               <<"u2", "u3">>},
        st \in {"pending", "completed", "cancelled"} }

RECURSIVE ListsUpTo(_, _)
\* the sequences of at most n elements of S
ListsUpTo(S, n) ==
    IF n = 0 THEN {<<>>}
    ELSE LET shorter == ListsUpTo(S, n - 1)
         IN  shorter \cup {Append(l, x) : l \in shorter, x \in S}

\* updateDashboardStats: the statistics of this.transactions are displayed
UpdateDashboardStats ==
    /\ stats' = calculateTransactionStats(transactions, currentUser)
    /\ UNCHANGED <<call, probe, apiVars, authVars, pageVars, notice, tasks,
                   currentUser, transactions, rendered, bound, filterVars,
                   modals, form, formLoading, loader, serverVars>>

StatsInit ==
    /\ authToken = Str("tokA")
    /\ lsToken = Str("tokA")
    /\ prefs = NoPrefs
    /\ draft = NoDraft
    /\ location = DashMainPage
    /\ navTo = NoPage
    /\ notice = NoNotice
    /\ tasks = <<>>
    /\ currentUser = Me
    /\ transactions \in ListsUpTo(StatsSamples, StatsLen)
    /\ rendered = <<>>
    /\ stats = NoStats
    /\ bound = FALSE
    /\ searchTerm = <<>>
    /\ statusFilter = "all"
    /\ call = NoCall
    /\ probe = NoProbe
    /\ modals = <<>>
    /\ form = EmptyForm
    /\ formLoading = FALSE
    /\ loader = FALSE
    /\ db = <<>>

StatsNext == UpdateDashboardStats

StatsSpec == StatsInit /\ [][StatsNext]_vars

(***************************************************************************)
(* filterTransactions on a loaded dashboard: the user types in             *)
(* #transaction-search and picks an option of #transaction-filter; both    *)
(* events run filterTransactions.                                          *)
(***************************************************************************)
\* transactions in the loaded list of FilterSpec
FilterLen == 2

UpperSeq ==
    <<"A", "B", "C", "D", "E", "F", "G", "H", "I", "J", "K", "L", "M",
      "N", "O", "P", "Q", "R", "S", "T", "U", "V", "W", "X", "Y", "Z">>
LowerSeq ==
    <<"a", "b", "c", "d", "e", "f", "g", "h", "i", "j", "k", "l", "m",
      "n", "o", "p", "q", "r", "s", "t", "u", "v", "w", "x", "y", "z">>

\* the lower-case form of one character
LowerOf(c) ==
    IF \E i \in 1..26 : UpperSeq[i] = c
    THEN LowerSeq[CHOOSE i \in 1..26 : UpperSeq[i] = c]
    ELSE c

\* a search that compares the text as typed
KeepCase(s) == s

\* String.prototype.toLowerCase
ToLowerCase(s) == [i \in 1..Len(s) |-> LowerOf(s[i])]

\* String.prototype.includes: sub occurs in s at some offset
Includes(s, sub) ==
    \E o \in 0..(Len(s) - Len(sub)) :
        \A i \in 1..Len(sub) : s[o + i] = sub[i]

\* the characters of a status
StatusChars(status) ==
    CASE status = "pending" -> <<"p", "e", "n", "d", "i", "n", "g">>
      [] status = "completed" ->
            <<"c", "o", "m", "p", "l", "e", "t", "e", "d">>
      [] status = "cancelled" ->
            <<"c", "a", "n", "c", "e", "l", "l", "e", "d">>
      [] status = "Failed" -> <<"F", "a", "i", "l", "e", "d">>
      [] OTHER -> <<>>

\* filterTransactions, lines 343-358: the list it hands to the renderer,
\* given the value of the search box and the selected option
FilteredList(ts, value, option) ==
    LET term == ToLowerCase(value)
        bySearch ==
            IF term # <<>>
            THEN SelectSeq(ts, LAMBDA t :
                     \/ Includes(ToLowerCase(t.id), term)
                     \/ Includes(ToLowerCase(StatusChars(t.status)), term))
            ELSE ts
    IN  IF option # "all"
        THEN SelectSeq(bySearch, LAMBDA t : t.status = option)
        ELSE bySearch

\* filterTransactions: this.transactions is swapped for the filtered list
\* while renderTransactions runs and is put back afterwards
filterTransactions(value, option) ==
    /\ rendered' = renderTransactions(FilteredList(transactions, value,
                                                   option))
    /\ transactions' = transactions

\* an input event of #transaction-search
SearchInput(value) ==
    /\ PageFree /\ bound
    /\ searchTerm' = value
    /\ statusFilter' = statusFilter
    /\ filterTransactions(value, statusFilter)
    /\ UNCHANGED <<call, probe, apiVars, authVars, pageVars, notice, tasks,
                   currentUser, stats, bound, modals, form, formLoading,
                   loader, serverVars>>

\* a change event of #transaction-filter
FilterChange(option) ==
    /\ PageFree /\ bound
    /\ statusFilter' = option
    /\ searchTerm' = searchTerm
    /\ filterTransactions(searchTerm, option)
    /\ UNCHANGED <<call, probe, apiVars, authVars, pageVars, notice, tasks,
                   currentUser, stats, bound, modals, form, formLoading,
                   loader, serverVars>>

\* the transactions a loaded list is drawn from
FilterSamples ==
    { Tx(<<"A", "b", "1">>, 5 * Unit, "USD", Other, "u1", "pending",
         <<>>, FALSE),
      Tx(<<"a", "b", "2">>, 7 * Unit, "USD", "u1", Other, "completed",
         <<>>, TRUE),
      Tx(<<"c", "3">>, 9 * Unit, "USD", "u1", Other, "Failed",
         <<>>, FALSE) }

\* what the user types in the search box
SearchSamples ==
    { <<>>, <<"A", "B">>, <<"p", "e", "n">>, <<"F", "A">>, <<"3">>,
      <<" ">> }

\* the options of #transaction-filter
FilterOptions == {"all", "pending", "completed", "Failed"}

FilterInit ==
    /\ authToken = Str("tokA")
    /\ lsToken = Str("tokA")
    /\ prefs = NoPrefs
    /\ draft = NoDraft
    /\ location = DashMainPage
    /\ navTo = NoPage
    /\ notice = NoNotice
    /\ tasks = <<>>
    /\ currentUser = Me
    /\ transactions \in ListsUpTo(FilterSamples, FilterLen)
    /\ rendered = renderTransactions(transactions)
    /\ stats = calculateTransactionStats(transactions, currentUser)
    /\ bound = TRUE
    /\ searchTerm = <<>>
    /\ statusFilter = "all"
    /\ call = NoCall
    /\ probe = NoProbe
    /\ modals = <<>>
    /\ form = EmptyForm
    /\ formLoading = FALSE
    /\ loader = FALSE
    /\ db = transactions

FilterNext ==
    \/ \E value \in SearchSamples : SearchInput(value)
    \/ \E option \in FilterOptions : FilterChange(option)

FilterSpec == FilterInit /\ [][FilterNext]_vars

(***************************************************************************)
(* makeRequest on its own: a token or none, one call with the options      *)
(* drawn, and each answer fetch can give.                                  *)
(***************************************************************************)
\* the headers property of the options: none, empty, a header of the
\* caller's own, and overrides of the two defaults
HeaderSamples ==
    { {}, {<<"X-Trace", "1">>}, {<<"Content-Type", "text/plain">>},
      {<<"X-Trace", "1">>, <<"Authorization", "Bearer tokB">>} }

OptionSamples ==
    { Options(m, FALSE, {}) : m \in {"GET", "POST"} }
        \cup { Options(m, TRUE, h) : m \in {"GET", "POST"},
                                     h \in HeaderSamples }

ResponseSamples ==
    { Response(st, b) :
        st \in {200, 204, 401, 500},
        b \in { JsonObject(Undef), JsonObject(Str("")),
                JsonObject(Str("Invalid Credentials.")), JsonNull,
                NotJson } }

RequestInit ==
    /\ authToken \in {Null, Str("tokA")}
    /\ lsToken = authToken
    /\ prefs = NoPrefs
    /\ draft = NoDraft
    /\ location = DashMainPage
    /\ navTo = NoPage
    /\ notice = NoNotice
    /\ tasks = <<>>
    /\ currentUser = NoUser
    /\ transactions = <<>>
    /\ rendered = <<>>
    /\ stats = NoStats
    /\ bound = FALSE
    /\ searchTerm = <<>>
    /\ statusFilter = "all"
    /\ call = NoCall
    /\ probe = NoProbe
    /\ modals = <<>>
    /\ form = EmptyForm
    /\ formLoading = FALSE
    /\ loader = FALSE
    /\ db = <<>>

RequestNext ==
    \/ \E options \in OptionSamples : MakeRequest(options)
    \/ \E response \in ResponseSamples : FetchAnswer(response)
    \/ FetchFails

RequestSpec == RequestInit /\ [][RequestNext]_vars

(***************************************************************************)
(* The validators and the OTP generator of QuantumPayAPI called on their   *)
(* own: an argument is drawn, the function is called once, and what it     *)
(* returned is kept.                                                       *)
(***************************************************************************)
\* characters of the prefix of a password drawn for validatePassword
PwLen == 4
\* characters of an email drawn for validateEmail
EmailLen == 5
\* Math.random() is drawn at k / OtpDen
OtpDen == 1000000
\* draws taken at each end of the range of k
OtpEdge == 64

\* passwords: up to PwLen characters of the four classes, alone or followed
\* by eight spaces, which add the length and no class
PasswordInputs ==
    { pre \o pad :
        pre \in ListsUpTo({"A", "a", "1", "!"}, PwLen),
        pad \in { <<>>, <<" ", " ", " ", " ", " ", " ", " ", " ">> } }

\* emails: every text of up to EmailLen characters over a letter, '@', '.'
\* and a space
EmailInputs == ListsUpTo({"a", "@", ".", " "}, EmailLen)

\* the draws of the random source: the lowest and the highest
RandomDraws == 0..(OtpEdge - 1) \cup (OtpDen - OtpEdge)..(OtpDen - 1)

CallValidatePassword ==
    /\ probe.fn = "validatePassword" /\ ~probe.done
    /\ probe' = [probe EXCEPT
           !.done = TRUE,
           !.bool = validatePassword(probe.text).isValid,
           !.strength = validatePassword(probe.text).strength]
    /\ UNCHANGED <<call, apiVars, authVars, pageVars, notice, tasks,
                   dashVars, serverVars>>

CallValidateEmail ==
    /\ probe.fn = "validateEmail" /\ ~probe.done
    /\ probe' = [probe EXCEPT !.done = TRUE,
                              !.bool = validateEmail(probe.text)]
    /\ UNCHANGED <<call, apiVars, authVars, pageVars, notice, tasks,
                   dashVars, serverVars>>

CallGenerateOTP ==
    /\ probe.fn = "generateOTP" /\ ~probe.done
    /\ probe' = [probe EXCEPT !.done = TRUE,
                              !.out = OtpOf(probe.k, OtpDen)]
    /\ UNCHANGED <<call, apiVars, authVars, pageVars, notice, tasks,
                   dashVars, serverVars>>

UtilInit ==
    /\ authToken = Null
    /\ lsToken = Null
    /\ prefs = NoPrefs
    /\ draft = NoDraft
    /\ location = Step2Page
    /\ navTo = NoPage
    /\ notice = NoNotice
    /\ tasks = <<>>
    /\ currentUser = NoUser
    /\ transactions = <<>>
    /\ rendered = <<>>
    /\ stats = NoStats
    /\ bound = FALSE
    /\ searchTerm = <<>>
    /\ statusFilter = "all"
    /\ call = NoCall
    /\ probe \in { Probe("validatePassword", pw, 0) : pw \in PasswordInputs }
           \cup { Probe("validateEmail", e, 0) : e \in EmailInputs }
           \cup { Probe("generateOTP", <<>>, k) : k \in RandomDraws }
    /\ modals = <<>>
    /\ form = EmptyForm
    /\ formLoading = FALSE
    /\ loader = FALSE
    /\ db = <<>>

UtilNext ==
    \/ CallValidatePassword
    \/ CallValidateEmail
    \/ CallGenerateOTP

UtilSpec == UtilInit /\ [][UtilNext]_vars

(***************************************************************************)
(* QuantumPayAPI.login and signup for a caller that runs them on a loaded  *)
(* page, with a session or without one, next to the sign-in form.          *)
(***************************************************************************)
\* api.login or api.signup up to its await
ApiCall(fn) ==
    /\ navTo = NoPage /\ location # NoPage
    /\ Len(tasks) < MaxTasks
    /\ tasks' = Append(tasks,
           Task("api", fn, NoId, <<>>, NoTx, NoPatch, NoCred,
                AuthHeader(authToken)))
    /\ probe' = [Probe(fn, <<>>, 0) EXCEPT !.sent = 1]
    /\ notice' = NoNotice
    /\ UNCHANGED <<call, apiVars, authVars, pageVars, dashVars, serverVars>>

\* a variant that drops the session when the request fails
ApiCallDoneClearsOnFailure(i, response) ==
    /\ Suspended(i, {"api"}, tasks[i].pc)
    /\ IF ~HttpOk(response.status) THEN clearAuthToken
       ELSE IF tasks[i].pc = "login" THEN login(response)
       ELSE signup(response)
    /\ probe' = ProbeReturns(probe, HttpOk(response.status))
    /\ tasks' = RemoveAt(tasks, i)
    /\ notice' = NoNotice
    /\ UNCHANGED <<call, authVars, pageVars, dashVars, serverVars>>

\* login, lines 75-84, and signup, lines 95-104, resumed after makeRequest:
\* a failure is thrown to the caller before the token is looked at; the
\* probe tells whether the call returned
ApiCallDone(i, response) ==
    /\ Suspended(i, {"api"}, tasks[i].pc)
    /\ IF ~HttpOk(response.status) THEN UNCHANGED apiVars
       ELSE IF tasks[i].pc = "login" THEN login(response)
       ELSE signup(response)
    /\ probe' = ProbeReturns(probe, HttpOk(response.status))
    /\ tasks' = RemoveAt(tasks, i)
    /\ notice' = NoNotice
    /\ UNCHANGED <<call, authVars, pageVars, dashVars, serverVars>>

SessionInit ==
    /\ authToken = Null
    /\ lsToken \in {Null, Str("tokA")}
    /\ prefs = NoPrefs
    /\ draft = NoDraft
    /\ location = NoPage
    /\ navTo = SignInPage
    /\ notice = NoNotice
    /\ tasks = <<>>
    /\ currentUser = NoUser
    /\ transactions = <<>>
    /\ rendered = <<>>
    /\ stats = NoStats
    /\ bound = FALSE
    /\ searchTerm = <<>>
    /\ statusFilter = "all"
    /\ call = NoCall
    /\ probe = NoProbe
    /\ modals = <<>>
    /\ form = EmptyForm
    /\ formLoading = FALSE
    /\ loader = FALSE
    /\ db = Fixture

SessionNext ==
    \/ PageLoad
    \/ \E fn \in {"login", "signup"} : ApiCall(fn)
    \/ \E i \in 1..Len(tasks), a \in AuthAnswers : ApiCallDone(i, a)
    \/ \E e \in EmailSamples, pw \in SignInPasswords, r \in BOOLEAN :
           HandleSignIn(e, pw, r)
    \/ \E i \in 1..Len(tasks), a \in AuthAnswers : LoginDone(i, a)
    \/ \E i \in 1..Len(tasks) : RedirectTimer(i)
    \/ \E i \in 1..Len(tasks), served \in BOOLEAN : InitUserDone(i, served)
    \/ \E i \in 1..Len(tasks), served \in BOOLEAN : ListAnswer(i, served)
    \/ \E i \in 1..Len(tasks) : LoadDone(i)

SessionSpec == SessionInit /\ [][SessionNext]_vars

(***************************************************************************)
(* Overlapping loads: a loaded dashboard on which a refresh and a          *)
(* cancellation can be in flight together.  The session is valid and the   *)
(* service answers every list request with its records; the update of a    *)
(* cancellation may fail.                                                  *)
(***************************************************************************)
\* handlers suspended at the same time on this dashboard
RaceTasks == 2

RaceInit ==
    /\ authToken = Str("tokA")
    /\ lsToken = Str("tokA")
    /\ prefs = NoPrefs
    /\ draft = NoDraft
    /\ location = DashMainPage
    /\ navTo = NoPage
    /\ notice = NoNotice
    /\ tasks = <<>>
    /\ currentUser = Me
    /\ transactions = Fixture
    /\ rendered = renderTransactions(transactions)
    /\ stats = calculateTransactionStats(transactions, currentUser)
    /\ bound = TRUE
    /\ searchTerm = <<>>
    /\ statusFilter = "all"
    /\ call = NoCall
    /\ probe = NoProbe
    /\ modals = <<>>
    /\ form = EmptyForm
    /\ formLoading = FALSE
    /\ loader = FALSE
    /\ db = Fixture

RaceNext ==
    \/ RefreshClickWithin(RaceTasks)
    \/ \E j \in 1..Len(rendered) : ItemClick(j)
    \/ \E c \in BOOLEAN : DetailsCancelClickWithin(c, RaceTasks)
    \/ ModalCloseClick
    \/ \E i \in 1..Len(tasks) : ListAnswer(i, TRUE)
    \/ \E i \in 1..Len(tasks) : LoadDone(i)
    \/ \E i \in 1..Len(tasks), served \in BOOLEAN : UpdateDone(i, served)

RaceSpec == RaceInit /\ [][RaceNext]_vars

(***************************************************************************)
(* Properties of the dashboard (Spec).                                     *)
(***************************************************************************)
\* the amount read from the form is not a positive number, or the form names
\* no recipient
InvalidSendInput(f) ==
    LET amount == parseFloat(f.amount)
    IN  \/ amount.nan
        \/ amount.v <= 0
        \/ f.receiver_id = "" /\ f.receiver_email = ""

\* C1: a submit of the send-money form whose amount is not a positive number
\* (zero, negative, empty, not numeric) or whose recipient is empty issues no
\* request, shows a validation error and opens no modal.
C1_InvalidSendIssuesNothing ==
    [][\A f \in FormSamples, k \in OtpDraws :
          (HandleSendMoney(f, k) /\ InvalidSendInput(f)) =>
              /\ tasks' = tasks
              /\ modals' = modals
              /\ db' = db
              /\ notice'.type = "error"
              /\ notice'.text \in {"Please enter a valid amount",
                                   "Please enter recipient information"}]_vars

\* the page after a submit that failed the amount check
C1_Witness ==
    /\ bound
    /\ notice = showError("Please enter a valid amount")
    /\ tasks = <<>>
    /\ modals = <<>>

\* C2: no update in flight changes the status of a transaction that the
\* service holds as completed or cancelled.
C2_TerminalStatusKept ==
    \A i \in 1..Len(tasks) :
        tasks[i].pc = "update" /\ FindTx(db, tasks[i].tx) # 0 =>
            LET held == db[FindTx(db, tasks[i].tx)]
            IN  held.status \in {"completed", "cancelled"} =>
                    tasks[i].patch.status = held.status

\* C3: a logout that is not confirmed changes neither the token, in memory
\* and in storage, nor the page; a confirmed one clears the token in both
\* and navigates to the sign-in page.
C3_Logout ==
    [][\A c \in BOOLEAN :
          Logout(c) =>
              IF c
              THEN authToken' = Null /\ lsToken' = Null
                   /\ navTo' = SignInPage
              ELSE UNCHANGED <<authToken, lsToken, location, navTo, tasks>>
      ]_vars

\* a loaded dashboard right after a confirmed logout
C3_Witness ==
    /\ currentUser = Me
    /\ navTo = SignInPage
    /\ authToken = Null
    /\ lsToken = Null

\* C5: when the current-user request of TransactionHandler.init is answered
\* 401, the token is gone from memory and from storage.
C5_TokenClearedOnUnauthorized ==
    [][\A i \in 1..Len(tasks), served \in BOOLEAN :
          (InitUserDone(i, served) /\ HttpStatus(tasks[i], served) = 401) =>
              authToken' = Null /\ lsToken' = Null]_vars

\* C6: a dashboard page that loads without a token navigates to the sign-in
\* page, sends no request and binds no event handler.
C6_InitFailsClosed ==
    [][(PageLoad /\ IsDashboard(navTo) /\ ~isAuthenticated(authToken')) =>
          /\ navTo' = SignInPage
          /\ tasks' = <<>>
          /\ ~bound'
          /\ currentUser' = NoUser]_vars

\* a dashboard page loaded without a token
C6_Witness ==
    /\ IsDashboard(location)
    /\ lsToken = Null
    /\ authToken = Null
    /\ navTo = SignInPage
    /\ tasks = <<>>
    /\ ~bound

\* C8: when the create request succeeds, an OTP modal is opened whose form
\* submits the new transaction's identifier, the list is requested in the
\* same step, after the modal, and the form is not reset yet.
C8_OtpModalTargetsCreated ==
    [][\A i \in 1..Len(tasks), served \in BOOLEAN :
          (SendCreateDone(i, served) /\ HttpOk(HttpStatus(tasks[i], served)))
          =>  /\ Len(modals') = Len(modals) + 1
              /\ modals'[Len(modals')].kind = "otp"
              /\ modals'[Len(modals')].tx = IdOf(Len(db) + 1)
              /\ modals'[Len(modals')].handlers = <<IdOf(Len(db) + 1)>>
              /\ tasks'[i].pc = "list" /\ tasks'[i].st = "sent"
              /\ form' = form]_vars

\* the codes verifyOTP is called with: typed ones, the empty one, and the
\* codes generateOTP produces
AnyCodes == Codes \cup {<<>>} \cup {generateOTP(k) : k \in 0..(RandDen - 1)}

\* C9: verifyOTP sends, for every identifier and every code, one update with
\* otp_verified = true, status = completed and otp_code = the code; a submit
\* of an OTP form sends exactly that update for each of its listeners.
C9_VerifyUnconditional ==
    /\ \A n \in 1..3, code \in AnyCodes :
          LET t == verifyOTP(IdOf(n), code, authToken)
          IN  /\ t.pc = "update" /\ t.tx = IdOf(n)
              /\ t.patch = [has_otp |-> TRUE, otp_code |-> code,
                            otp_verified |-> TRUE, status |-> "completed"]
    /\ [][\A code \in Codes :
             (OtpSubmit(code) /\ Top.handlers # <<>>) =>
                 /\ Len(tasks') = Len(tasks) + Len(Top.handlers)
                 /\ \A h \in 1..Len(Top.handlers) :
                       LET t == tasks'[Len(tasks) + h]
                       IN  /\ t.pc = "update" /\ t.tx = Top.handlers[h]
                           /\ t.patch = [has_otp |-> TRUE, otp_code |-> code,
                                         otp_verified |-> TRUE,
                                         status |-> "completed"]]_vars

\* an update of verifyOTP in flight whose code is not the one the service
\* holds for the transaction
C9_Witness ==
    \E i \in 1..Len(tasks) :
        /\ tasks[i].kind = "verify" /\ tasks[i].pc = "update"
        /\ FindTx(db, tasks[i].tx) # 0
        /\ db[FindTx(db, tasks[i].tx)].otp_code # tasks[i].code
        /\ tasks[i].patch.status = "completed"

\* C21: a cancellation that is not confirmed sends nothing and changes
\* neither the page nor the service; a confirmed one sends one update whose
\* body is {status: cancelled} for the transaction of the modal; when that
\* update succeeds the handler goes on to load the list, and when it fails
\* the handler shows 'Failed to cancel transaction' and ends, with no list
\* request and no second update.
C21_Cancel ==
    [][ /\ DetailsCancelClick(FALSE) =>
              UNCHANGED <<tasks, apiVars, dashVars, serverVars>>
        /\ DetailsCancelClick(TRUE) =>
              /\ Len(tasks') = Len(tasks) + 1
              /\ SubSeq(tasks', 1, Len(tasks)) = tasks
              /\ LET t == tasks'[Len(tasks')]
                 IN  /\ t.kind = "cancel" /\ t.pc = "update"
                     /\ t.tx = Top.tx
                     /\ t.patch = [has_otp |-> FALSE, otp_code |-> <<>>,
                                   otp_verified |-> FALSE,
                                   status |-> "cancelled"]
              /\ UNCHANGED <<dashVars, serverVars>>
        /\ \A i \in 1..Len(tasks), served \in BOOLEAN :
              (UpdateDone(i, served) /\ tasks[i].kind = "cancel") =>
                 IF HttpOk(HttpStatus(tasks[i], served))
                 THEN /\ Len(tasks') = Len(tasks)
                      /\ tasks'[i].kind = "cancel" /\ tasks'[i].pc = "list"
                      /\ tasks'[i].st = "sent"
                 ELSE /\ tasks' = RemoveAt(tasks, i)
                      /\ notice' = Notice("Failed to cancel transaction",
                                          "error")
                      /\ UNCHANGED <<transactions, rendered, serverVars>>
      ]_vars

\* a confirmed cancellation was served and its handler is loading the list
C21_Witness ==
    \E i \in 1..Len(tasks) :
        /\ tasks[i].kind = "cancel" /\ tasks[i].pc = "list"
        /\ FindTx(db, tasks[i].tx) # 0
        /\ db[FindTx(db, tasks[i].tx)].status = "cancelled"

\* C22: a handler whose create, verify or cancel request succeeded goes on
\* at once to request the transaction list, and no handler requests the
\* list while its own create or update is unanswered; a list that arrives
\* replaces the list in memory as a whole.
C22_RefetchAfterMutation ==
    [][ /\ \A i \in 1..Len(tasks), served \in BOOLEAN :
              ((SendCreateDone(i, served) \/ UpdateDone(i, served))
                    /\ HttpOk(HttpStatus(tasks[i], served))) =>
                 /\ tasks[i].pc \in {"create", "update"}
                 /\ Len(tasks') = Len(tasks)
                 /\ tasks'[i].pc = "list" /\ tasks'[i].st = "sent"
                 /\ tasks'[i].kind = tasks[i].kind
                 /\ transactions' = transactions
        /\ \A i \in 1..Len(tasks) :
              (LoadDone(i) /\ tasks[i].st = "ok") =>
                 /\ transactions' = tasks[i].rlist
                 /\ rendered' = renderTransactions(tasks[i].rlist)
      ]_vars

\* the list loaded after a creation replaced the one in memory: it holds the
\* record the user sent next to the one that was there
C22_Witness ==
    /\ tasks = <<>>
    /\ Len(transactions) = 2
    /\ transactions = db
    /\ transactions[2].sender_user_id = Me.id
    /\ notice = Notice("Transaction initiated! Please verify with OTP.",
                       "success")

C28_VerifyFailure ==
    [][ \A i \in 1..Len(tasks), served \in BOOLEAN :
           (/\ UpdateDone(i, served)
            /\ tasks[i].kind = "verify"
            /\ HttpStatus(tasks[i], served) \notin 200..299) =>
              /\ notice' = Notice("Invalid OTP code. Please try again.",
                                  "error")
              /\ tasks' = RemoveAt(tasks, i)
              /\ UNCHANGED <<modals, transactions, rendered, stats, loader,
                             serverVars>>
      ]_vars

\* a verification failed with its OTP modal on top: the error is shown, the
\* modal is still there and nothing is in flight
C28_Witness ==
    /\ notice = Notice("Invalid OTP code. Please try again.", "error")
    /\ modals # <<>> /\ modals[Len(modals)].kind = "otp"
    /\ tasks = <<>>

\* C29: a dashboard page loaded with a token starts init with the
\* current-user request alone; init requests the list in the step in which
\* the user's answer arrives, and only when that answer is a success; when
\* it is a failure init ends with 'Failed to load transaction data' shown,
\* no list request and no handlers bound; handlers are never bound and
\* init never waits for the list while the current user is unknown.
C29_InitOrder ==
    [][ /\ (PageLoad /\ IsDashboard(navTo) /\ isAuthenticated(authToken')) =>
              /\ Len(tasks') = 1
              /\ tasks'[1].kind = "init" /\ tasks'[1].pc = "user"
              /\ currentUser' = NoUser /\ ~bound'
        /\ \A i \in 1..Len(tasks), served \in BOOLEAN :
              InitUserDone(i, served) =>
                 IF HttpStatus(tasks[i], served) \in 200..299
                 THEN /\ currentUser' # NoUser
                      /\ Len(tasks') = Len(tasks)
                      /\ tasks'[i].kind = "init" /\ tasks'[i].pc = "list"
                      /\ tasks'[i].st = "sent"
                 ELSE /\ tasks' = RemoveAt(tasks, i)
                      /\ notice' = Notice("Failed to load transaction data",
                                          "error")
                      /\ currentUser' = NoUser /\ ~bound'
                      /\ UNCHANGED <<transactions, rendered, stats>>
        /\ (bound' \/ \E i \in 1..Len(tasks') :
                         tasks'[i].kind = "init" /\ tasks'[i].pc = "list")
              => currentUser' # NoUser
      ]_vars

\* the current-user request of init failed: the error is shown, nothing is
\* in flight, nothing was loaded and no handler is bound
C29_Witness ==
    /\ IsDashboard(location) /\ navTo = NoPage
    /\ notice = Notice("Failed to load transaction data", "error")
    /\ tasks = <<>>
    /\ currentUser = NoUser /\ ~bound
    /\ transactions = <<>>

\* C30: every submit of the OTP form of the topmost overlay adds exactly
\* one update request, and that request is addressed to the transaction
\* the overlay was opened for, whatever other modals are open.
C30_SubmitTargetsOwnModal ==
    [][\A code \in Codes :
          OtpSubmit(code) =>
             /\ Len(tasks') = Len(tasks) + 1
             /\ SubSeq(tasks', 1, Len(tasks)) = tasks
             /\ tasks'[Len(tasks')].kind = "verify"
             /\ tasks'[Len(tasks')].pc = "update"
             /\ tasks'[Len(tasks')].tx = Top.tx]_vars

\* C34: when the create request fails, the handler shows the error of the
\* request, or 'Transaction failed' when it has no message, enables the
\* submit button again and ends: no modal is opened, no list is requested,
\* the form keeps its input and the list stays as it was.  The button is
\* also enabled again when the handler ends after its refresh, so on a
\* loaded dashboard it is disabled only while a send handler is suspended.
C34_CreateFailure ==
    [][ /\ \A i \in 1..Len(tasks), served \in BOOLEAN :
              (SendCreateDone(i, served)
                 /\ HttpStatus(tasks[i], served) \notin 200..299) =>
                 /\ notice'.type = "error"
                 /\ notice'.text =
                       IF RequestError(tasks[i], served) # ""
                       THEN RequestError(tasks[i], served)
                       ELSE "Transaction failed"
                 /\ ~formLoading'
                 /\ tasks' = RemoveAt(tasks, i)
                 /\ UNCHANGED <<modals, form, loader, transactions,
                                rendered, stats, serverVars>>
        /\ \A i \in 1..Len(tasks) :
              (LoadDone(i) /\ tasks[i].kind = "send") => ~formLoading'
        /\ (formLoading' /\ navTo' = NoPage) =>
              \E i \in 1..Len(tasks') : tasks'[i].kind = "send"
      ]_vars

\* a create request was answered 500: its error is shown, the button is
\* enabled, the form still holds the input, nothing is in flight and no
\* modal is open
C34_Witness ==
    /\ OnDashboard /\ bound
    /\ notice = Notice(ErrorMessage(500, ""), "error")
    /\ form = FilledForm /\ ~formLoading /\ ~loader
    /\ tasks = <<>> /\ modals = <<>>
    /\ db = transactions

\* C35: when a list request has failed, the handler that resumes leaves
\* the list in memory, the rendered list and the statistics as they were
\* and hides the loader, and then goes on to its end: a send handler
\* resets the form, enables the button and leaves its success notice on
\* screen, a verify handler closes a modal, and after any other handler
\* 'Failed to load transactions' is the error on screen.
C35_ListFailure ==
    [][\A i \in 1..Len(tasks) :
          (LoadDone(i) /\ tasks[i].st = "err") =>
             /\ UNCHANGED <<transactions, rendered, stats>>
             /\ ~loader'
             /\ tasks' = RemoveAt(tasks, i)
             /\ IF tasks[i].kind = "send"
                THEN /\ form' = EmptyForm /\ ~formLoading'
                     /\ notice' = Notice(
                           "Transaction initiated! Please verify with OTP.",
                           "success")
                ELSE /\ notice' = Notice("Failed to load transactions",
                                         "error")
                     /\ form' = form
             /\ modals' = IF tasks[i].kind = "verify"
                          THEN closeModal(modals) ELSE modals
      ]_vars

\* the refresh after a served update failed: the error is shown, the loader
\* is hidden and the page still holds the list it had loaded before, which
\* the service's records no longer match
C35_Witness ==
    /\ OnDashboard /\ bound
    /\ notice = Notice("Failed to load transactions", "error")
    /\ tasks = <<>> /\ ~loader
    /\ transactions # <<>> /\ transactions # db

DraftLacksField ==
    ~draft.has \/ draft.name = "" \/ draft.email = <<>>
               \/ draft.password = <<>>

\* C7: a submit of step 3 with the terms accepted and a draft that is missing
\* or lacks a field shows 'Registration data is incomplete. Please start
\* over.', sends no signup request and leaves the token as it was.
C7_IncompleteDraftRejected ==
    [][\A ph \in PhoneSamples, m \in BOOLEAN :
          (HandleStep3(ph, TRUE, m) /\ DraftLacksField) =>
              /\ notice' = Notice(
                     "Registration data is incomplete. Please start over.",
                     "error")
              /\ tasks' = tasks
              /\ UNCHANGED <<authToken, lsToken, draft, navTo>>]_vars

\* step 3 was submitted with a draft that step 1 wrote and step 2 did not
C7_Witness ==
    /\ location = Step3Page
    /\ draft.has /\ draft.name # "" /\ draft.password = <<>>
    /\ notice = Notice("Registration data is incomplete. Please start over.",
                       "error")
    /\ tasks = <<>>

\* C32: every signup request in flight carries a name built from a first
\* and a last name that pass the checks of step 1 together with its email,
\* and a password that passes the checks of step 2 with itself as the
\* confirmation; a step 1 that is accepted leaves the draft without a
\* password, and step 3 sends nothing while the draft has no password.
C32_SignupCarriesChecked ==
    [][ /\ \A i \in 1..Len(tasks') :
              tasks'[i].kind = "signup" =>
                 /\ \E f \in FirstNames, l \in LastNames :
                       /\ Step1Error(f, l, tasks'[i].cred.email) = ""
                       /\ tasks'[i].cred.name = f \o " " \o l
                 /\ validateEmail(tasks'[i].cred.email)
                 /\ validatePassword(tasks'[i].cred.password).isValid
                 /\ Step2Error(tasks'[i].cred.password,
                               tasks'[i].cred.password) = ""
        /\ \A f \in FirstNames, l \in LastNames, e \in EmailSamples :
              (HandleStep1(f, l, e) /\ Step1Error(f, l, e) = "") =>
                 /\ draft'.password = <<>>
                 /\ draft'.email = e /\ draft'.name = f \o " " \o l
        /\ \A ph \in PhoneSamples, t \in BOOLEAN, m \in BOOLEAN :
              (HandleStep3(ph, t, m) /\ draft.password = <<>>) =>
                 tasks' = tasks
      ]_vars

\* a signup request is in flight, sent from step 3 with the draft the first
\* two steps filled
C32_Witness ==
    /\ location = Step3Page
    /\ \E i \in 1..Len(tasks) :
          /\ tasks[i].kind = "signup" /\ tasks[i].pc = "signup"
          /\ tasks[i].cred.password = draft.password
          /\ tasks[i].cred.email = draft.email
          /\ draft.password # <<>>

(***************************************************************************)
(* Properties of calculateTransactionStats (StatsSpec).                    *)
(***************************************************************************)
RECURSIVE AmountOver(_, _)
\* the sum of the amounts of the transactions of ts at the positions in I
AmountOver(ts, I) ==
    IF I = {} THEN 0
    ELSE LET i == CHOOSE x \in I : TRUE
         IN  ts[i].amount + AmountOver(ts, I \ {i})

\* C10: calculateTransactionStats gives income = the amounts of the completed
\* transactions the user receives, expenses = those of the completed ones
\* the user sends, balance = income - expenses and pendingCount = the number
\* of pending transactions; the page shows these once they are computed.
C10_Stats ==
    LET ts == transactions
        got == calculateTransactionStats(ts, currentUser)
        incoming == {i \in 1..Len(ts) : ts[i].status = "completed"
                        /\ ts[i].receiver_user_id = currentUser.id}
        outgoing == {i \in 1..Len(ts) : ts[i].status = "completed"
                        /\ ts[i].sender_user_id = currentUser.id}
    IN  /\ got.income = AmountOver(ts, incoming)
        /\ got.expenses = AmountOver(ts, outgoing)
        /\ got.balance = AmountOver(ts, incoming) - AmountOver(ts, outgoing)
        /\ got.pendingCount =
               Cardinality({i \in 1..Len(ts) : ts[i].status = "pending"})
        /\ stats \in {NoStats, got}

\* statistics shown for a list that holds a completed incoming transaction
\* and a cancelled one
C10_Witness ==
    /\ Len(transactions) = 2
    /\ transactions[1].status = "completed"
    /\ transactions[1].receiver_user_id = currentUser.id
    /\ transactions[1].sender_user_id # currentUser.id
    /\ transactions[2].status = "cancelled"
    /\ stats.income = transactions[1].amount
    /\ stats.expenses = 0
    /\ stats.balance = transactions[1].amount

\* C14: a submit of the step 1 form goes on to step 2 only with a first
\* name, a last name and an email validateEmail accepts; the draft is then
\* exactly the name "first last" and the email, with no password; any
\* other submit leaves the draft as it was and starts no navigation.
C14_Step1 ==
    [][ \A f \in FirstNames, l \in LastNames, e \in EmailSamples :
          HandleStep1(f, l, e) =>
             IF f # "" /\ l # "" /\ validateEmail(e)
             THEN /\ navTo' = Step2Page
                  /\ draft'.has
                  /\ draft'.name = f \o " " \o l
                  /\ draft'.email = e
                  /\ draft'.password = <<>>
             ELSE /\ draft' = draft
                  /\ navTo' = NoPage
                  /\ notice'.type = "error"
      ]_vars

\* step 1 was submitted with a name and a valid email: the draft holds the
\* name and the email only, and step 2 is being loaded
C14_Witness ==
    /\ location = Step1Page
    /\ navTo = Step2Page
    /\ draft.has
    /\ draft.name = "Ada Byron"
    /\ draft.email = <<"a", "@", "b", ".", "c">>
    /\ draft.password = <<>>
    /\ lsToken = Null

\* how many of the five requirements the password meets
RequirementsMet(password) ==
    Cardinality(
        {r \in 1..5 :
            \/ r = 1 /\ Len(password) >= 8
            \/ r = 2 /\ \E i \in 1..Len(password) : password[i] \in UpperChars
            \/ r = 3 /\ \E i \in 1..Len(password) : password[i] \in LowerChars
            \/ r = 4 /\ \E i \in 1..Len(password) : IsDigit(password[i])
            \/ r = 5 /\ \E i \in 1..Len(password) :
                            password[i] \in SpecialChars})

\* C15: a submit of the step 2 form goes on to step 3 only with a password
\* that meets four or more of the five requirements and equals its
\* confirmation; the draft then holds that password and the name and email
\* it held; any other submit leaves the draft as it was and starts no
\* navigation.
C15_Step2 ==
    [][ \A pw \in PasswordSamples, cf \in PasswordSamples :
          HandleStep2(pw, cf) =>
             IF RequirementsMet(pw) >= 4 /\ pw = cf
             THEN /\ navTo' = Step3Page
                  /\ draft'.password = pw
                  /\ draft'.name = draft.name
                  /\ draft'.email = draft.email
             ELSE /\ draft' = draft
                  /\ navTo' = NoPage
                  /\ notice'.type = "error"
      ]_vars

\* step 2 has added a password of four characters, which meets four
\* requirements, to a draft with a name and an email
C15_Witness ==
    /\ location = Step2Page
    /\ navTo = Step3Page
    /\ draft.name = "Ada Byron"
    /\ draft.email = <<"a", "@", "b", ".", "c">>
    /\ draft.password = <<"A", "a", "1", "!">>

\* C16: when the signup request succeeds the handler has stored a token
\* (isAuthenticated() is true) and cleared the draft, with the navigation to
\* the post-signup page still to come from its timer; when the request
\* fails the draft and the token are as they were and no timer is set.
C16_SignupOutcome ==
    [][ \A i \in 1..Len(tasks), a \in AuthAnswers :
          SignupDone(i, a) =>
             IF HttpOk(a.status)
             THEN /\ isAuthenticated(authToken')
                  /\ lsToken' # Null
                  /\ draft' = NoDraft
                  /\ navTo' = NoPage
                  /\ tasks'[i].pc = "timer"
             ELSE /\ draft' = draft
                  /\ authToken' = authToken /\ lsToken' = lsToken
                  /\ navTo' = NoPage
                  /\ Len(tasks') < Len(tasks)
      ]_vars

\* C17: a submit of the step 3 form with the terms box unchecked sends no
\* signup request, leaves the draft and the stored preferences as they were
\* and shows an error.
C17_TermsRequired ==
    [][ \A ph \in PhoneSamples, m \in BOOLEAN :
          HandleStep3(ph, FALSE, m) =>
             /\ tasks' = tasks
             /\ draft' = draft
             /\ prefs' = prefs
             /\ notice'.type = "error"
      ]_vars

\* step 3 was submitted without the terms over a complete draft: the error
\* is on screen, nothing is in flight and the draft is still complete
C17_Witness ==
    /\ location = Step3Page
    /\ notice = Notice("You must accept the Terms of Service to continue",
                       "error")
    /\ tasks = <<>>
    /\ ~DraftIncomplete(draft)
    /\ prefs = NoPrefs

\* C18: a sign-in submitted with an email validateEmail rejects, or with an
\* empty password, sends no login request: an error is shown and the token,
\* in memory and in storage, is as it was.
C18_InvalidSignInStaysLocal ==
    [][ \A e \in EmailSamples, pw \in SignInPasswords, r \in BOOLEAN :
          (HandleSignIn(e, pw, r) /\ (~validateEmail(e) \/ pw = <<>>)) =>
             /\ tasks' = tasks
             /\ notice'.type = "error"
             /\ authToken' = authToken /\ lsToken' = lsToken
             /\ prefs' = prefs
             /\ navTo' = NoPage
      ]_vars

\* a sign-in with a valid email and no password was refused on the page
C18_Witness ==
    /\ location = SignInPage
    /\ notice = Notice("Password is required", "error")
    /\ tasks = <<>>
    /\ authToken = Null
    /\ ~formLoading

\* C19: when the sign-in handler sets the timer of its redirect to the
\* dashboard, a token is stored and isAuthenticated() is true.
C19_RedirectHasToken ==
    [][ \A i \in 1..Len(tasks), a \in AuthAnswers :
          (LoginDone(i, a) /\ Len(tasks') = Len(tasks)
                /\ tasks'[i].pc = "timer") =>
             /\ isAuthenticated(authToken')
             /\ lsToken' # Null
      ]_vars

\* C20: a page load makes AuthHandler navigate to the dashboard entry page
\* exactly when a token is held and the page is not a dashboard page; a
\* page that is not a dashboard page and loads without a token stays.
C20_LoadRedirect ==
    [][ PageLoad =>
          /\ (navTo' = DashMainPage) <=>
                (isAuthenticated(authToken') /\ ~IsDashboard(location'))
          /\ (~isAuthenticated(authToken') /\ ~IsDashboard(location'))
                => navTo' = NoPage
          /\ authToken' = lsToken
      ]_vars

\* a signup page was opened while a token was stored: the page is loaded
\* and is leaving for the dashboard entry page
C20_Witness ==
    /\ location = Step1Page
    /\ navTo = DashMainPage
    /\ isAuthenticated(authToken)

\* C27: checkAuthStatus called without a token returns false and sends
\* nothing; called with a token it sends one current-user request; when
\* that request succeeds it returns true and the token is as it was, and
\* when it fails it returns false with the token cleared from memory and
\* storage.
C27_SessionProbe ==
    [][ /\ CheckAuthStatus =>
              /\ UNCHANGED apiVars
              /\ IF ~isAuthenticated(authToken)
                 THEN /\ tasks' = tasks
                      /\ probe'.done /\ ~probe'.bool /\ probe'.sent = 0
                 ELSE /\ Len(tasks') = Len(tasks) + 1
                      /\ SubSeq(tasks', 1, Len(tasks)) = tasks
                      /\ tasks'[Len(tasks')].kind = "probe"
                      /\ tasks'[Len(tasks')].pc = "user"
                      /\ ~probe'.done /\ probe'.sent = 1
        /\ \A i \in 1..Len(tasks), served \in BOOLEAN :
              CheckAuthDone(i, served) =>
                 /\ tasks' = RemoveAt(tasks, i)
                 /\ probe'.done /\ probe'.sent = probe.sent
                 /\ IF HttpStatus(tasks[i], served) \in 200..299
                    THEN probe'.bool /\ UNCHANGED apiVars
                    ELSE /\ ~probe'.bool
                         /\ authToken' = Null /\ lsToken' = Null
      ]_vars

\* the probe sent its request, the request failed, and it returned false
\* with the token cleared
C27_Witness ==
    /\ probe.fn = "checkAuthStatus"
    /\ probe.done /\ ~probe.bool /\ probe.sent = 1
    /\ authToken = Null /\ lsToken = Null
    /\ tasks = <<>>

(***************************************************************************)
(* Properties of filterTransactions (FilterSpec).                          *)
(***************************************************************************)
\* a and b are the same character up to the case of a letter
SameLetter(a, b) ==
    \/ a = b
    \/ \E i \in 1..26 : {a, b} = {UpperSeq[i], LowerSeq[i]}

\* sub occurs in s, whatever the case of the letters
ContainsAnyCase(s, sub) ==
    \E o \in 0..(Len(s) - Len(sub)) :
        \A i \in 1..Len(sub) : SameLetter(s[o + i], sub[i])

\* the transaction meets both criteria
Matches(t, value, option) ==
    /\ \/ ContainsAnyCase(t.id, value)
       \/ ContainsAnyCase(StatusChars(t.status), value)
    /\ option = "all" \/ t.status = option

\* the indices of the transactions of ts that meet both criteria
MatchingIndices(ts, value, option) ==
    {i \in 1..Len(ts) : Matches(ts[i], value, option)}

\* C11: every filter operation renders exactly the transactions whose id
\* or status contains the search text (whatever the case of the letters)
\* and whose status equals the selected option ('all' selects every one),
\* in the order of the list; it leaves the list in memory as it was; and a
\* filter operation with an empty search and 'all' renders the whole list.
C11_FilterRendersMatches ==
    [][ /\ transactions' = transactions
        /\ Len(rendered') =
               Cardinality(MatchingIndices(transactions, searchTerm',
                                           statusFilter'))
        /\ \E f \in [1..Len(rendered') -> 1..Len(transactions)] :
              /\ \A i, j \in 1..Len(rendered') : i < j => f[i] < f[j]
              /\ \A i \in 1..Len(rendered') :
                    /\ f[i] \in MatchingIndices(transactions, searchTerm',
                                                statusFilter')
                    /\ rendered'[i] = RenderItem(transactions[f[i]])
        /\ (searchTerm' = <<>> /\ statusFilter' = "all")
              => rendered' = renderTransactions(transactions')
      ]_vars

\* a search typed in capitals has left one of two transactions rendered,
\* the one whose id holds it in another case, and the list holds both
C11_Witness ==
    /\ searchTerm = <<"A", "B">>
    /\ statusFilter = "completed"
    /\ Len(transactions) = 2
    /\ Len(rendered) = 1
    /\ rendered[1].id = <<"a", "b", "2">>

(***************************************************************************)
(* Properties of makeRequest (RequestSpec).                                *)
(***************************************************************************)
\* C12: when the caller supplies headers, the request sent carries the
\* caller's headers and also every default the caller did not name:
\* Content-Type: application/json and, with a token, Authorization: Bearer
\* <token>.
C12_DefaultHeadersKept ==
    (call.pc # "idle" /\ call.options.hasHeaders) =>
        LET sentHeaders == call.sent[1].headers
        IN  /\ call.options.headers \subseteq sentHeaders
            /\ \A d \in defaultHeaders(authToken) :
                  (\A g \in call.options.headers : g[1] # d[1])
                      => d \in sentHeaders

\* C13: a call that got a response made one attempt; for a non-success
\* status it threw an error whose message is the message field of the JSON
\* body when that is a non-empty text and 'HTTP <status>: <statusText>'
\* otherwise; for 204 it returned null and parsed no body; for another
\* success status it returned the parsed JSON body.
C13_ResponseMapping ==
    (call.pc = "done" /\ call.response # NoResponse) =>
        LET status == call.response.status
            body == call.response.body
            hasMessage == body.json = "object" /\ body.message.k = "string"
                              /\ body.message.s # ""
        IN  /\ Len(call.sent) = 1
            /\ (status < 200 \/ status > 299) =>
                  /\ call.outcome.kind = "thrown"
                  /\ call.outcome.message =
                        IF hasMessage THEN body.message.s
                        ELSE "HTTP " \o ToString(status) \o ": "
                                 \o StatusText(status)
            /\ status = 204 =>
                  /\ call.outcome = Returned(JsonNull)
                  /\ call.parsed = 0
            /\ (status \in 200..299 /\ status # 204 /\ body.json # "none")
                  => call.outcome = Returned(body)

(***************************************************************************)
(* Properties of the validators and the OTP generator (UtilSpec).          *)
(***************************************************************************)
\* C24: validatePassword returns strength weak when 0, 1 or 2 of the five
\* requirements are met, medium when 3 are, strong when 4 or 5 are, and
\* isValid exactly when at least 4 are.
C24_PasswordStrength ==
    (probe.fn = "validatePassword" /\ probe.done) =>
        LET n == RequirementsMet(probe.text)
        IN  /\ probe.strength = CASE n <= 2 -> "weak"
                                  [] n = 3 -> "medium"
                                  [] OTHER -> "strong"
            /\ probe.bool <=> n >= 4

\* a password that meets three requirements was rated medium and not valid
C24_Witness ==
    /\ probe.fn = "validatePassword" /\ probe.done
    /\ RequirementsMet(probe.text) = 3
    /\ probe.strength = "medium"
    /\ ~probe.bool

\* the text has no white space and no '@', and is not empty
CleanPart(part) ==
    /\ part # <<>>
    /\ \A n \in 1..Len(part) : part[n] \notin {" ", "@"}

\* local@domain.tld with three clean parts
EmailShape(e) ==
    \E i \in 1..Len(e), j \in 1..Len(e) :
        /\ i < j /\ e[i] = "@" /\ e[j] = "."
        /\ CleanPart(SubSeq(e, 1, i - 1))
        /\ CleanPart(SubSeq(e, i + 1, j - 1))
        /\ CleanPart(SubSeq(e, j + 1, Len(e)))

\* no '@', or no '.' after its first '@'
LacksAtOrDomainDot(e) ==
    \/ \A i \in 1..Len(e) : e[i] # "@"
    \/ \E i \in 1..Len(e) :
          /\ e[i] = "@"
          /\ \A n \in 1..(i - 1) : e[n] # "@"
          /\ \A j \in (i + 1)..Len(e) : e[j] # "."

\* C25: validateEmail returns true for every text of the shape
\* local@domain.tld whose three parts are non-empty and hold no white space
\* and no '@', and false for every text without '@' or without a dot after
\* the '@'.
C25_EmailShape ==
    (probe.fn = "validateEmail" /\ probe.done) =>
        /\ EmailShape(probe.text) => probe.bool
        /\ LacksAtOrDomainDot(probe.text) => ~probe.bool

\* a@a.a was accepted
C25_Witness ==
    /\ probe.fn = "validateEmail" /\ probe.done
    /\ probe.text = <<"a", "@", "a", ".", "a">>
    /\ probe.bool

\* C26: for every draw of the random source generateOTP returns six decimal
\* digits whose value is from 100000 to 999999.
C26_OtpRange ==
    (probe.fn = "generateOTP" /\ probe.done) =>
        /\ Len(probe.out) = 6
        /\ \A i \in 1..Len(probe.out) : IsDigit(probe.out[i])
        /\ DigitsValue(probe.out, 1, Len(probe.out)) >= 100000
        /\ DigitsValue(probe.out, 1, Len(probe.out)) <= 999999

\* the highest draw gave 999999
C26_Witness ==
    /\ probe.fn = "generateOTP" /\ probe.done
    /\ probe.k = OtpDen - 1
    /\ probe.out = <<"9", "9", "9", "9", "9", "9">>

(***************************************************************************)
(* Properties of overlapping loads (RaceSpec).                             *)
(***************************************************************************)
\* C31: once every overlapping load has finished, the list in memory is
\* the answer to the list request issued last.  In RaceSpec the service's
\* records change only in the step that issues a refresh, and every list
\* request is answered with the records as they are when it is served, so
\* the answer to the request issued last is the records the service holds
\* in the end.
C31_LastIssuedWins ==
    tasks = <<>> => transactions = db

(***************************************************************************)
(* Properties of login and signup and the session token (SessionSpec).     *)
(***************************************************************************)
\* C33: a step in which a login or a signup request is answered with a
\* failure, or with a success whose body has no authToken field, leaves
\* the token of the client and the stored token as they were, for a call
\* of the API and for the sign-in form alike.
C33_FailureKeepsToken ==
    [][\A i \in 1..Len(tasks), a \in AuthAnswers :
          ((ApiCallDone(i, a) \/ LoginDone(i, a))
                /\ (a.status \notin 200..299 \/ a.authToken = Undef)) =>
             /\ authToken' = authToken
             /\ lsToken' = lsToken]_vars

\* a call made with a session was answered 401 and the session is still
\* there, in the client and in storage
C33_Witness ==
    /\ probe.fn \in {"login", "signup"}
    /\ probe.done /\ ~probe.bool
    /\ tasks = <<>>
    /\ authToken = Str("tokA") /\ lsToken = Str("tokA")

====
